---- MODULE Spec2Model ----
(***************************************************************************)
(* clickSUMO: road-network templates, the entity model, the structured-file *)
(* serializer and the signal designer's timing calculations.               *)
(*                                                                         *)
(* Eight specifications share this module:                                 *)
(*   Spec         create_network on each template                          *)
(*   SpecStudio   the studio's generate button: create_network, save_all   *)
(*   SpecConcurrent  interleaved generate() calls of two callers           *)
(*   SpecEntities the constructors of the entity model                     *)
(*   SpecBuild    a caller populating a NetworkGenerator and saving it     *)
(*   SpecRoutes   a caller populating a RouteGenerator and saving it       *)
(*   SpecSave     the serializer applied to populated generators           *)
(*   SpecTiming   the signal designer's calculators and the Webster helper *)
(*                                                                         *)
(* Python floats are modelled as exact rationals <<num, den>>, den > 0.    *)
(* Identifiers are strings built as the f-strings build them; phase state  *)
(* strings are sequences of one-character strings.                         *)
(*                                                                         *)
(* A record constructor lists its fields in the order in which TLC sorts   *)
(* field names (first occurrence as an identifier in this module), so the  *)
(* model checker never rearranges a record that its workers share.         *)
(***************************************************************************)
EXTENDS Integers, Sequences, FiniteSets, TLC

VARIABLES
    network,    \* st.session_state.network: the graph of the last successful generate
    request,    \* the template key and the config of the last generate click
    outcome,    \* "none" | "ok" | "error": what the last generate click showed
    files,      \* outputs/network.{nod,edg,con,tll}.xml
    gen,        \* a caller-built NetworkGenerator
    rgen,       \* a caller-built RouteGenerator
    disk,       \* the files written from gen (net) and from rgen (rou), the save_all calls made
    buildErr,   \* TRUE when the caller's last operation raised
    calls,      \* per caller: the generate() call it is in, its position and its local graph
    ctor,       \* a constructor call: its arguments and what it returned or raised
    timing      \* the signal designer: the last calculation's inputs and what it displayed

vars == <<network, request, outcome, files, gen, rgen, disk, buildErr, ctor, timing, calls>>
studioVars == <<network, request, outcome, files>>
buildVars == <<gen, rgen, disk, buildErr, ctor, calls>>

-----------------------------------------------------------------------------
(* Bounds of the model.                                                    *)

MaxLanes == 2
MaxRows == 3
MaxCols == 4
MaxArms == 4
MaxIntersections == 2
MaxRamps == 2
MaxApproaches == 3
MaxSignals == 4
MaxNodes == 2
MaxEdges == 1
MaxPrograms == 1
MaxVehicleTypes == 2
MaxFlows == 1
MaxSaves == 2

-----------------------------------------------------------------------------
(* Exact arithmetic for Python's float expressions.                        *)

Abs(n) == IF n < 0 THEN -n ELSE n

RECURSIVE GCD(_, _)
GCD(a, b) == IF b = 0 THEN a ELSE GCD(b, a % b)

\* the value n/d in lowest terms, denominator positive (d # 0)
Rat(n, d) ==
    LET g == GCD(Abs(n), Abs(d))
        s == IF d < 0 THEN -1 ELSE 1
    IN  <<(s * n) \div g, (s * d) \div g>>

RInt(n) == <<n, 1>>
RAdd(a, b) == Rat(a[1] * b[2] + b[1] * a[2], a[2] * b[2])
RSub(a, b) == Rat(a[1] * b[2] - b[1] * a[2], a[2] * b[2])
RMul(a, b) == Rat(a[1] * b[1], a[2] * b[2])
\* a / b for b # 0; the callers model ZeroDivisionError before using it
RDiv(a, b) == Rat(a[1] * b[2], a[2] * b[1])
RLt(a, b) == a[1] * b[2] < b[1] * a[2]
RLe(a, b) == a[1] * b[2] <= b[1] * a[2]
RMin(a, b) == IF RLt(b, a) THEN b ELSE a
RMax(a, b) == IF RLt(a, b) THEN b ELSE a
RIsZero(a) == a[1] = 0
\* Python's float a % c for c > 0: a - c * floor(a / c), in [0, c)
RMod(a, c) ==
    LET q == RDiv(a, c)
        fl == q[1] \div q[2]
    IN  RSub(a, RMul(c, RInt(fl)))

RECURSIVE RSum(_)
RSum(s) == IF s = <<>> THEN RInt(0) ELSE RAdd(Head(s), RSum(Tail(s)))

\* kmh / 3.6
kmh_to_ms(kmh) == Rat(kmh * 10, 36)

-----------------------------------------------------------------------------
(* Sequences.                                                              *)

RECURSIVE Flatten(_)
Flatten(ss) == IF ss = <<>> THEN <<>> ELSE Head(ss) \o Flatten(Tail(ss))

\* Python's c * n on a one-character string: empty for n <= 0
Rep(c, n) == [i \in 1..n |-> c]

Range(s) == {s[i] : i \in DOMAIN s}

NoDuplicates(s) == \A i, j \in DOMAIN s : s[i] = s[j] => i = j

-----------------------------------------------------------------------------
(* The entity model (dataclasses with __post_init__ validation).           *)

ValidNodeTypes ==
    {"priority", "traffic_light", "right_before_left", "unregulated", "dead_end"}

Node(id, x, y, node_type, tl_type) ==
    [id |-> id, x |-> x, y |-> y, node_type |-> node_type, tl_type |-> tl_type]

\* Node.__post_init__ does not raise
NodeValid(n) == n.id # "" /\ n.node_type \in ValidNodeTypes

Edge(id, from_node, to_node, num_lanes, speed, priority) ==
    [id |-> id, from_node |-> from_node, to_node |-> to_node,
     num_lanes |-> num_lanes, speed |-> speed, priority |-> priority]

\* mutant: the self-loop check is missing
EdgeValidNoLoopCheck(e) ==
    /\ e.id # ""
    /\ e.from_node # ""
    /\ e.to_node # ""
    /\ e.num_lanes >= 1
    /\ RLt(RInt(0), e.speed)

\* Edge.__post_init__ does not raise
EdgeValid(e) ==
    /\ e.id # ""
    /\ e.from_node # ""
    /\ e.to_node # ""
    /\ e.from_node # e.to_node
    /\ e.num_lanes >= 1
    /\ RLt(RInt(0), e.speed)

Phase(duration, state, min_dur, max_dur, name) ==
    [duration |-> duration, state |-> state, min_dur |-> min_dur,
     max_dur |-> max_dur, name |-> name]

\* Phase.__post_init__ does not raise
PhaseValid(p) ==
    /\ p.duration > 0
    /\ p.state # <<>>
    /\ p.min_dur >= 0
    /\ p.max_dur >= 0
    /\ ~(p.max_dur > 0 /\ p.min_dur > 0 /\ p.min_dur > p.max_dur)

\* the TrafficLight dataclass: no __post_init__, any id and any list of phases
TrafficLight(id, phases, tl_type) ==
    [id |-> id, tl_type |-> tl_type, phases |-> phases, program_id |-> "0", offset |-> 0]

-----------------------------------------------------------------------------
(* NetworkGenerator: four insertion-ordered lists.                         *)

NewNetwork == [nodes |-> <<>>, edges |-> <<>>, connections |-> <<>>, traffic_lights |-> <<>>]

add_node(g, n) == [g EXCEPT !.nodes = Append(@, n)]
add_edge(g, e) == [g EXCEPT !.edges = Append(@, e)]
add_connection(g, c) == [g EXCEPT !.connections = Append(@, c)]
add_traffic_light(g, tl) == [g EXCEPT !.traffic_lights = Append(@, tl)]

\* what a template's generate() comes to: the graph, or the ValueError of the
\* first entity whose constructor raised (no graph is returned then)
Failed == [ok |-> FALSE]

Generated(nodes, edges, tls) ==
    IF /\ \A i \in DOMAIN nodes : NodeValid(nodes[i])
       /\ \A i \in DOMAIN edges : EdgeValid(edges[i])
       /\ \A i \in DOMAIN tls : \A k \in DOMAIN tls[i].phases : PhaseValid(tls[i].phases[k])
    THEN [nodes |-> nodes, edges |-> edges, connections |-> <<>>,
          traffic_lights |-> tls, ok |-> TRUE]
    ELSE Failed

\* a coordinate: the int r, the float r, or r * cos(deg) / r * sin(deg) of math.radians(deg)
Lit(v) == [fn |-> "int", r |-> RInt(v), deg |-> RInt(0)]
Polar(fn, r, deg) == [fn |-> fn, r |-> RInt(r), deg |-> deg]

-----------------------------------------------------------------------------
(* The six templates (src/network/templates.py).                           *)

\* FourWayIntersection.generate
FourWayNodes(p) ==
    << Node("C", Lit(0), Lit(0), "traffic_light", p.signal_type),
       Node("N", Lit(0), Lit(p.arm_length), "priority", ""),
       Node("S", Lit(0), Lit(-p.arm_length), "priority", ""),
       Node("E", Lit(p.arm_length), Lit(0), "priority", ""),
       Node("W", Lit(-p.arm_length), Lit(0), "priority", "") >>

FourWayEdgeList ==
    << <<"N2C", "N", "C">>, <<"C2N", "C", "N">>, <<"S2C", "S", "C">>, <<"C2S", "C", "S">>,
       <<"E2C", "E", "C">>, <<"C2E", "C", "E">>, <<"W2C", "W", "C">>, <<"C2W", "C", "W">> >>

FourWayEdges(p) ==
    [k \in DOMAIN FourWayEdgeList |->
        Edge(FourWayEdgeList[k][1], FourWayEdgeList[k][2], FourWayEdgeList[k][3],
             p.lanes_per_arm, kmh_to_ms(p.speed_limit), 1)]

FourWayPhases(p) ==
    LET n == p.lanes_per_arm
        blk(c) == Rep(c, n * 2)
        ns_green == blk("G") \o blk("r") \o blk("G") \o blk("r")
        ns_yellow == blk("y") \o blk("r") \o blk("y") \o blk("r")
        ew_green == blk("r") \o blk("G") \o blk("r") \o blk("G")
        ew_yellow == blk("r") \o blk("y") \o blk("r") \o blk("y")
    IN  << Phase(p.green_time_ns, ns_green, 0, 0, "NS_Green"),
           Phase(p.yellow_time, ns_yellow, 0, 0, "NS_Yellow"),
           Phase(p.green_time_ew, ew_green, 0, 0, "EW_Green"),
           Phase(p.yellow_time, ew_yellow, 0, 0, "EW_Yellow") >>

FourWayGenerate(p) ==
    Generated(FourWayNodes(p), FourWayEdges(p),
              << TrafficLight("C", FourWayPhases(p), p.signal_type) >>)

\* ThreeWayIntersection.generate
ThreeWayNodes(p) ==
    << Node("C", Lit(0), Lit(0), IF p.has_signal THEN "traffic_light" ELSE "priority", ""),
       Node("N", Lit(0), Lit(p.arm_length), "priority", ""),
       Node("E", Lit(p.arm_length), Lit(0), "priority", ""),
       Node("W", Lit(-p.arm_length), Lit(0), "priority", "") >>

ThreeWayEdgeList ==
    << <<"N2C", "N", "C">>, <<"C2N", "C", "N">>, <<"E2C", "E", "C">>,
       <<"C2E", "C", "E">>, <<"W2C", "W", "C">>, <<"C2W", "C", "W">> >>

ThreeWayEdges(p) ==
    [k \in DOMAIN ThreeWayEdgeList |->
        Edge(ThreeWayEdgeList[k][1], ThreeWayEdgeList[k][2], ThreeWayEdgeList[k][3],
             p.lanes_per_arm, kmh_to_ms(p.speed_limit), 1)]

\* mutant: only the two green phases are built
ThreeWayPhasesGreensOnly(p) ==
    LET n == p.lanes_per_arm
        blk(c) == Rep(c, n * 2)
    IN  << Phase(30, blk("G") \o blk("r") \o blk("r"), 0, 0, ""),
           Phase(30, blk("r") \o blk("G") \o blk("G"), 0, 0, "") >>

\* mutant: the two yellow phases are exchanged, so green is followed by red
ThreeWayPhasesNoClearance(p) ==
    LET n == p.lanes_per_arm
        blk(c) == Rep(c, n * 2)
    IN  << Phase(30, blk("G") \o blk("r") \o blk("r"), 0, 0, ""),
           Phase(3, blk("r") \o blk("y") \o blk("y"), 0, 0, ""),
           Phase(30, blk("r") \o blk("G") \o blk("G"), 0, 0, ""),
           Phase(3, blk("y") \o blk("r") \o blk("r"), 0, 0, "") >>

ThreeWayPhases(p) ==
    LET n == p.lanes_per_arm
        blk(c) == Rep(c, n * 2)
    IN  << Phase(30, blk("G") \o blk("r") \o blk("r"), 0, 0, ""),
           Phase(3, blk("y") \o blk("r") \o blk("r"), 0, 0, ""),
           Phase(30, blk("r") \o blk("G") \o blk("G"), 0, 0, ""),
           Phase(3, blk("r") \o blk("y") \o blk("y"), 0, 0, "") >>

ThreeWayGenerate(p) ==
    Generated(ThreeWayNodes(p), ThreeWayEdges(p),
              IF p.has_signal
              THEN << TrafficLight("C", ThreeWayPhases(p), "static") >>
              ELSE <<>>)

\* Roundabout.generate; arm i (0-based) is at angle i * (360 / num_arms) - 90
RingId(i) == "R" \o ToString(i)
ApproachId(i) == "A" \o ToString(i)
ArmDeg(p, i) == RSub(RMul(RInt(i), Rat(360, p.num_arms)), RInt(90))

RoundaboutNodes(p) ==
    [k \in 1..p.num_arms |->
        Node(RingId(k - 1), Polar("cos", p.radius, ArmDeg(p, k - 1)),
             Polar("sin", p.radius, ArmDeg(p, k - 1)), "priority", "")]
    \o
    [k \in 1..p.num_arms |->
        Node(ApproachId(k - 1), Polar("cos", p.radius + p.arm_length, ArmDeg(p, k - 1)),
             Polar("sin", p.radius + p.arm_length, ArmDeg(p, k - 1)), "priority", "")]

\* mutant: the ring link skips one ring junction
RingEdgeSkipping(p, i) ==
    LET next_i == (i + 2) % p.num_arms
    IN  Edge(RingId(i) \o "2" \o RingId(next_i), RingId(i), RingId(next_i),
             p.roundabout_lanes, kmh_to_ms(p.speed_limit), 1)

RingEdge(p, i) ==
    LET next_i == (i + 1) % p.num_arms
    IN  Edge(RingId(i) \o "2" \o RingId(next_i), RingId(i), RingId(next_i),
             p.roundabout_lanes, kmh_to_ms(p.speed_limit), 1)

RoundaboutEdges(p) ==
    [k \in 1..p.num_arms |-> RingEdge(p, k - 1)]
    \o
    Flatten([k \in 1..p.num_arms |->
        << Edge(ApproachId(k - 1) \o "2" \o RingId(k - 1), ApproachId(k - 1), RingId(k - 1),
                p.lanes_per_arm, kmh_to_ms(p.speed_limit), 1),
           Edge(RingId(k - 1) \o "2" \o ApproachId(k - 1), RingId(k - 1), ApproachId(k - 1),
                p.lanes_per_arm, kmh_to_ms(p.speed_limit), 1) >>])

RoundaboutGenerate(p) == Generated(RoundaboutNodes(p), RoundaboutEdges(p), <<>>)

\* GridNetwork.generate; rows and columns are 0-based as in the source
GridNodeId(row, col) == "n" \o ToString(row) \o "_" \o ToString(col)
\* mutant: the direction suffix is left out of the link id
GridEdgeIdNoDirection(row, col, dir) == "e" \o ToString(row) \o "_" \o ToString(col)

GridEdgeId(row, col, dir) == "e" \o ToString(row) \o "_" \o ToString(col) \o "_" \o dir

\* mutant: boundary junctions are signalized too
GridNodeTypeAll(p, row, col) ==
    IF p.signalized THEN "traffic_light" ELSE "priority"

GridNodeType(p, row, col) ==
    LET is_edge == row = 0 \/ row = p.rows - 1 \/ col = 0 \/ col = p.cols - 1
    IN  IF is_edge \/ ~p.signalized THEN "priority" ELSE "traffic_light"

GridNodes(p) ==
    [k \in 1..(p.rows * p.cols) |->
        LET row == (k - 1) \div p.cols
            col == (k - 1) % p.cols
        IN  Node(GridNodeId(row, col), Lit(col * p.block_length), Lit(row * p.block_length),
                 GridNodeType(p, row, col), "")]

GridHorizontalEdges(p) ==
    Flatten([k \in 1..(p.rows * (p.cols - 1)) |->
        LET row == (k - 1) \div (p.cols - 1)
            col == (k - 1) % (p.cols - 1)
            from_id == GridNodeId(row, col)
            to_id == GridNodeId(row, col + 1)
        IN  << Edge(GridEdgeId(row, col, "EB"), from_id, to_id, p.lanes, kmh_to_ms(p.speed_limit), 1),
               Edge(GridEdgeId(row, col, "WB"), to_id, from_id, p.lanes, kmh_to_ms(p.speed_limit), 1) >>])

\* mutant: the row loop runs over range(rows) instead of range(rows - 1)
GridVerticalEdgesRowOverrun(p) ==
    Flatten([k \in 1..(p.rows * p.cols) |->
        LET row == (k - 1) \div p.cols
            col == (k - 1) % p.cols
            from_id == GridNodeId(row, col)
            to_id == GridNodeId(row + 1, col)
        IN  << Edge(GridEdgeId(row, col, "NB"), from_id, to_id, p.lanes, kmh_to_ms(p.speed_limit), 1),
               Edge(GridEdgeId(row, col, "SB"), to_id, from_id, p.lanes, kmh_to_ms(p.speed_limit), 1) >>])

GridVerticalEdges(p) ==
    Flatten([k \in 1..((p.rows - 1) * p.cols) |->
        LET row == (k - 1) \div p.cols
            col == (k - 1) % p.cols
            from_id == GridNodeId(row, col)
            to_id == GridNodeId(row + 1, col)
        IN  << Edge(GridEdgeId(row, col, "NB"), from_id, to_id, p.lanes, kmh_to_ms(p.speed_limit), 1),
               Edge(GridEdgeId(row, col, "SB"), to_id, from_id, p.lanes, kmh_to_ms(p.speed_limit), 1) >>])

GridPhases(p) ==
    LET n == p.lanes
    IN  << Phase(30, Rep("G", n * 4) \o Rep("r", n * 4), 0, 0, ""),
           Phase(3, Rep("y", n * 4) \o Rep("r", n * 4), 0, 0, ""),
           Phase(30, Rep("r", n * 4) \o Rep("G", n * 4), 0, 0, ""),
           Phase(3, Rep("r", n * 4) \o Rep("y", n * 4), 0, 0, "") >>

\* for row in range(1, rows - 1): for col in range(1, cols - 1)
GridTrafficLights(p) ==
    IF p.signalized /\ p.rows > 2 /\ p.cols > 2
    THEN [k \in 1..((p.rows - 2) * (p.cols - 2)) |->
            LET row == 1 + ((k - 1) \div (p.cols - 2))
                col == 1 + ((k - 1) % (p.cols - 2))
            IN  TrafficLight(GridNodeId(row, col), GridPhases(p), "static")]
    ELSE <<>>

GridGenerate(p) ==
    Generated(GridNodes(p), GridHorizontalEdges(p) \o GridVerticalEdges(p), GridTrafficLights(p))

\* Corridor.generate; main nodes M0 .. M(N+1), cross nodes N1..NN and S1..SN
cross_arm_length == 150

CorridorNodes(p) ==
    Flatten([k \in 1..(p.num_intersections + 2) |->
        LET i == k - 1
            x == i * p.spacing
        IN  IF i = 0 \/ i = p.num_intersections + 1
            THEN << Node("M" \o ToString(i), Lit(x), Lit(0), "priority", "") >>
            ELSE << Node("M" \o ToString(i), Lit(x), Lit(0),
                         IF p.signalized THEN "traffic_light" ELSE "priority", ""),
                    Node("N" \o ToString(i), Lit(x), Lit(cross_arm_length), "priority", ""),
                    Node("S" \o ToString(i), Lit(x), Lit(-cross_arm_length), "priority", "") >>])

CorridorMainEdges(p) ==
    Flatten([k \in 1..(p.num_intersections + 1) |->
        LET i == k - 1
            from_id == "M" \o ToString(i)
            to_id == "M" \o ToString(i + 1)
        IN  << Edge("main_" \o ToString(i) \o "_EB", from_id, to_id,
                    p.main_lanes, kmh_to_ms(p.main_speed), 1),
               Edge("main_" \o ToString(i) \o "_WB", to_id, from_id,
                    p.main_lanes, kmh_to_ms(p.main_speed), 1) >>])

CorridorCrossEdges(p) ==
    Flatten([i \in 1..p.num_intersections |->
        LET main_id == "M" \o ToString(i)
            north_id == "N" \o ToString(i)
            south_id == "S" \o ToString(i)
            cid(sfx) == "cross_" \o ToString(i) \o sfx
        IN  << Edge(cid("_NB"), south_id, main_id, p.cross_lanes, kmh_to_ms(p.cross_speed), 1),
               Edge(cid("_NB2"), main_id, north_id, p.cross_lanes, kmh_to_ms(p.cross_speed), 1),
               Edge(cid("_SB"), north_id, main_id, p.cross_lanes, kmh_to_ms(p.cross_speed), 1),
               Edge(cid("_SB2"), main_id, south_id, p.cross_lanes, kmh_to_ms(p.cross_speed), 1) >>])

\* mutant: the cross-street blocks are sized with the main lane count
CorridorPhasesMainOnly(p) ==
    LET n_main == p.main_lanes
    IN  << Phase(40, Rep("G", n_main * 4) \o Rep("r", n_main * 4), 0, 0, ""),
           Phase(3, Rep("y", n_main * 4) \o Rep("r", n_main * 4), 0, 0, ""),
           Phase(25, Rep("r", n_main * 4) \o Rep("G", n_main * 4), 0, 0, ""),
           Phase(3, Rep("r", n_main * 4) \o Rep("y", n_main * 4), 0, 0, "") >>

CorridorPhases(p) ==
    LET n_main == p.main_lanes
        n_cross == p.cross_lanes
    IN  << Phase(40, Rep("G", n_main * 4) \o Rep("r", n_cross * 4), 0, 0, ""),
           Phase(3, Rep("y", n_main * 4) \o Rep("r", n_cross * 4), 0, 0, ""),
           Phase(25, Rep("r", n_main * 4) \o Rep("G", n_cross * 4), 0, 0, ""),
           Phase(3, Rep("r", n_main * 4) \o Rep("y", n_cross * 4), 0, 0, "") >>

\* mutant: the programs are added whether or not the corridor is signalized
CorridorTrafficLightsAlways(p) ==
    [i \in 1..p.num_intersections |->
        TrafficLight("M" \o ToString(i), CorridorPhases(p), "static")]

CorridorTrafficLights(p) ==
    IF p.signalized
    THEN [i \in 1..p.num_intersections |->
            TrafficLight("M" \o ToString(i), CorridorPhases(p), "static")]
    ELSE <<>>

CorridorGenerate(p) ==
    Generated(CorridorNodes(p), CorridorMainEdges(p) \o CorridorCrossEdges(p),
              CorridorTrafficLights(p))

\* Highway.generate
ramp_speed_kmh == 60
JuncId(i) == "junc_" \o ToString(i)

\* ramp_spacing = length / (num_ramps + 1); x = i * ramp_spacing
RampX(p, i) == RMul(RInt(i), Rat(p.length, p.num_ramps + 1))
Shifted(x, d) == [fn |-> "float", r |-> RAdd(x, RInt(d)), deg |-> RInt(0)]

HighwayNodes(p) ==
    << Node("start", Lit(0), Lit(0), "priority", ""),
       Node("end", Lit(p.length), Lit(0), "priority", "") >>
    \o
    Flatten([i \in 1..p.num_ramps |->
        << Node(JuncId(i), Shifted(RampX(p, i), 0), Lit(0), "priority", ""),
           Node("on_ramp_" \o ToString(i), Shifted(RampX(p, i), -100), Lit(-100), "priority", ""),
           Node("off_ramp_" \o ToString(i), Shifted(RampX(p, i), 100), Lit(-100), "priority", "") >>])

\* prev_node before iteration i of the main-edge loop
PrevNode(i) == IF i = 1 THEN "start" ELSE JuncId(i - 1)

HighwayMainEdges(p) ==
    [i \in 1..p.num_ramps |->
        Edge("hw_" \o PrevNode(i) \o "_" \o JuncId(i), PrevNode(i), JuncId(i),
             p.lanes, kmh_to_ms(p.speed_limit), 3)]
    \o
    << Edge("hw_" \o PrevNode(p.num_ramps + 1) \o "_end", PrevNode(p.num_ramps + 1), "end",
            p.lanes, kmh_to_ms(p.speed_limit), 3) >>

HighwayRampEdges(p) ==
    Flatten([i \in 1..p.num_ramps |->
        << Edge("on_ramp_" \o ToString(i), "on_ramp_" \o ToString(i), JuncId(i),
                p.ramp_lanes, kmh_to_ms(ramp_speed_kmh), 1),
           Edge("off_ramp_" \o ToString(i), JuncId(i), "off_ramp_" \o ToString(i),
                p.ramp_lanes, kmh_to_ms(ramp_speed_kmh), 1) >>])

HighwayGenerate(p) ==
    Generated(HighwayNodes(p), HighwayMainEdges(p) \o HighwayRampEdges(p), <<>>)

-----------------------------------------------------------------------------
(* The registry and create_network.                                        *)

TEMPLATES == {"4way", "3way", "roundabout", "grid", "corridor", "highway"}

\* mutant: an unknown key yields an empty graph instead of an error
create_networkLenient(template_key, p) ==
    IF template_key \notin TEMPLATES THEN Generated(<<>>, <<>>, <<>>)
    ELSE CASE template_key = "4way" -> FourWayGenerate(p)
           [] template_key = "3way" -> ThreeWayGenerate(p)
           [] template_key = "roundabout" -> RoundaboutGenerate(p)
           [] template_key = "grid" -> GridGenerate(p)
           [] template_key = "corridor" -> CorridorGenerate(p)
           [] template_key = "highway" -> HighwayGenerate(p)

create_network(template_key, p) ==
    IF template_key \notin TEMPLATES THEN Failed
    ELSE CASE template_key = "4way" -> FourWayGenerate(p)
           [] template_key = "3way" -> ThreeWayGenerate(p)
           [] template_key = "roundabout" -> RoundaboutGenerate(p)
           [] template_key = "grid" -> GridGenerate(p)
           [] template_key = "corridor" -> CorridorGenerate(p)
           [] template_key = "highway" -> HighwayGenerate(p)

-----------------------------------------------------------------------------
(* The serializer: to_xml_attrib and save_all.  An attribute dict is the   *)
(* sequence of its <<key, value>> pairs in insertion order.                *)

\* str() of a float: the shortest text that reads back as the same number
FloatStr(r) == "f" \o ToString(r[1]) \o "/" \o ToString(r[2])

CoordStr(c) ==
    CASE c.fn = "int" -> ToString(c.r[1])
      [] c.fn = "float" -> FloatStr(c.r)
      [] OTHER -> c.fn \o FloatStr(c.r) \o FloatStr(c.deg)

\* mutant: the coordinates are written under each other's key
NodeAttribSwapped(n) ==
    << <<"id", n.id>>, <<"x", CoordStr(n.y)>>, <<"y", CoordStr(n.x)>>, <<"type", n.node_type>> >>
    \o (IF n.node_type = "traffic_light" /\ n.tl_type # ""
        THEN << <<"tlType", n.tl_type>> >> ELSE <<>>)

NodeAttrib(n) ==
    << <<"id", n.id>>, <<"x", CoordStr(n.x)>>, <<"y", CoordStr(n.y)>>, <<"type", n.node_type>> >>
    \o (IF n.node_type = "traffic_light" /\ n.tl_type # ""
        THEN << <<"tlType", n.tl_type>> >> ELSE <<>>)

EdgeAttrib(e) ==
    << <<"id", e.id>>, <<"from", e.from_node>>, <<"to", e.to_node>>,
       <<"numLanes", ToString(e.num_lanes)>>, <<"speed", FloatStr(e.speed)>>,
       <<"priority", ToString(e.priority)>> >>

ConnectionAttrib(c) ==
    << <<"from", c.from_edge>>, <<"to", c.to_edge>>,
       <<"fromLane", ToString(c.from_lane)>>, <<"toLane", ToString(c.to_lane)>> >>

PhaseAttrib(ph) ==
    << <<"duration", ToString(ph.duration)>>, <<"state", ph.state>> >>
    \o (IF ph.min_dur > 0 THEN << <<"minDur", ToString(ph.min_dur)>> >> ELSE <<>>)
    \o (IF ph.max_dur > 0 THEN << <<"maxDur", ToString(ph.max_dur)>> >> ELSE <<>>)
    \o (IF ph.name # "" THEN << <<"name", ph.name>> >> ELSE <<>>)

TrafficLightElement(tl) ==
    [phases |-> [k \in DOMAIN tl.phases |-> PhaseAttrib(tl.phases[k])],
     attrib |-> << <<"id", tl.id>>, <<"type", tl.tl_type>>, <<"programID", tl.program_id>>,
                   <<"offset", ToString(tl.offset)>> >>]

generate_nodes_xml(g) == [i \in DOMAIN g.nodes |-> NodeAttrib(g.nodes[i])]
\* mutant: the edges are written last-added first
generate_edges_xmlReversed(g) ==
    [i \in DOMAIN g.edges |-> EdgeAttrib(g.edges[Len(g.edges) + 1 - i])]

generate_edges_xml(g) == [i \in DOMAIN g.edges |-> EdgeAttrib(g.edges[i])]
generate_connections_xml(g) == [i \in DOMAIN g.connections |-> ConnectionAttrib(g.connections[i])]
generate_tll_xml(g) == [i \in DOMAIN g.traffic_lights |-> TrafficLightElement(g.traffic_lights[i])]

\* a file: absent, or present with the element list it was last written with
NoFile == [present |-> FALSE]
File(elems) == [present |-> TRUE, elems |-> elems]
NoFiles == [nod |-> NoFile, edg |-> NoFile, con |-> NoFile, tll |-> NoFile]

\* mutant: the connection file is written even when there is no connection
save_allAlwaysConnections(f, g) ==
    [nod |-> File(generate_nodes_xml(g)),
     edg |-> File(generate_edges_xml(g)),
     con |-> File(generate_connections_xml(g)),
     tll |-> IF g.traffic_lights # <<>> THEN File(generate_tll_xml(g)) ELSE f.tll]

\* mutant: the node file is opened for appending
save_allAppending(f, g) ==
    [nod |-> IF f.nod.present THEN File(f.nod.elems \o generate_nodes_xml(g))
             ELSE File(generate_nodes_xml(g)),
     edg |-> File(generate_edges_xml(g)),
     con |-> IF g.connections # <<>> THEN File(generate_connections_xml(g)) ELSE f.con,
     tll |-> IF g.traffic_lights # <<>> THEN File(generate_tll_xml(g)) ELSE f.tll]

\* NetworkGenerator.save_all on a directory holding the files f
save_all(f, g) ==
    [nod |-> File(generate_nodes_xml(g)),
     edg |-> File(generate_edges_xml(g)),
     con |-> IF g.connections # <<>> THEN File(generate_connections_xml(g)) ELSE f.con,
     tll |-> IF g.traffic_lights # <<>> THEN File(generate_tll_xml(g)) ELSE f.tll]

-----------------------------------------------------------------------------
(* Callers of create_network(template_key, **kwargs): the parameter ranges *)
(* are the studio's sliders cut to the bounds, widened by the values a     *)
(* direct caller can pass that make a constructor raise (0 lanes, 1 arm).  *)

LaneChoices == 1..MaxLanes

FourWayConfigs ==
    [arm_length : {200}, lanes_per_arm : 0..MaxLanes, speed_limit : {30, 50},
     signal_type : {"static", "actuated"}, green_time_ns : {15, 30},
     green_time_ew : {30}, yellow_time : {3}]

ThreeWayConfigs ==
    [arm_length : {200}, lanes_per_arm : 0..MaxLanes, speed_limit : {50}, has_signal : BOOLEAN]

RoundaboutConfigs ==
    [num_arms : 1..MaxArms, radius : {30}, arm_length : {200}, lanes_per_arm : LaneChoices,
     roundabout_lanes : LaneChoices, speed_limit : {30}]

GridConfigs ==
    [rows : 1..MaxRows, cols : 1..MaxCols, block_length : {200}, lanes : LaneChoices,
     speed_limit : {50}, signalized : BOOLEAN]

CorridorConfigs ==
    [num_intersections : 0..MaxIntersections, spacing : {300}, main_lanes : LaneChoices,
     cross_lanes : LaneChoices, main_speed : {60}, cross_speed : {40}, signalized : BOOLEAN]

HighwayConfigs ==
    [length : {2000}, lanes : LaneChoices, speed_limit : {80, 100}, num_ramps : 0..MaxRamps,
     ramp_lanes : LaneChoices]

NoNetwork == [ok |-> FALSE]

\* network = create_network(key, **p): the graph, or no graph when the call raised
CreateNetwork(key, p) ==
    \E g \in {create_network(key, p)} :
        /\ request' = [key |-> key, config |-> p]
        /\ network' = g
        /\ outcome' = IF g.ok THEN "ok" ELSE "error"

Create4Way ==
    \E p \in FourWayConfigs :
        /\ CreateNetwork("4way", p)
        /\ UNCHANGED <<files, buildVars, timing>>

Create3Way ==
    \E p \in ThreeWayConfigs :
        /\ CreateNetwork("3way", p)
        /\ UNCHANGED <<files, buildVars, timing>>

CreateRoundabout ==
    \E p \in RoundaboutConfigs :
        /\ CreateNetwork("roundabout", p)
        /\ UNCHANGED <<files, buildVars, timing>>

CreateGrid ==
    \E p \in GridConfigs :
        /\ CreateNetwork("grid", p)
        /\ UNCHANGED <<files, buildVars, timing>>

CreateCorridor ==
    \E p \in CorridorConfigs :
        /\ CreateNetwork("corridor", p)
        /\ UNCHANGED <<files, buildVars, timing>>

CreateHighway ==
    \E p \in HighwayConfigs :
        /\ CreateNetwork("highway", p)
        /\ UNCHANGED <<files, buildVars, timing>>

\* a key that is not registered
CreateUnknown ==
    \E key \in {"tjunction", ""} :
        /\ CreateNetwork(key, [lanes |-> 1])
        /\ UNCHANGED <<files, buildVars, timing>>

\* the templates and configs the studio's generate button is pressed with
StudioRequests ==
    {<<"4way", p>> : p \in {q \in FourWayConfigs : q.speed_limit = 50 /\ q.green_time_ns = 30}}
    \cup {<<"3way", p>> : p \in ThreeWayConfigs}
    \cup {<<"roundabout", p>> : p \in RoundaboutConfigs}

\* the "Generate Network" button: create_network, then save_all into outputs/ under
\* the name "network", then the session keeps the graph; an exception shows an error
\* and leaves the session and the directory as they were
GenerateClicked ==
    \E r \in StudioRequests :
        \E g \in {create_network(r[1], r[2])} :
            /\ request' = [key |-> r[1], config |-> r[2]]
            /\ IF g.ok
               THEN /\ files' = save_all(files, g)
                    /\ network' = g
                    /\ outcome' = "ok"
               ELSE /\ UNCHANGED <<files, network>>
                    /\ outcome' = "error"
            /\ UNCHANGED <<buildVars, timing>>

-----------------------------------------------------------------------------
(* Concurrent generate() calls.  Each call runs generate() of its own      *)
(* template instance: network = NetworkGenerator() is a local of the call, *)
(* the entities are constructed and added one by one, and the first        *)
(* constructor that raises ends the call.  A step of one call may come     *)
(* between any two steps of another.                                       *)

Callers == {"c1", "c2"}

NoCalls ==
    [c \in Callers |->
        [key |-> "", config |-> [lanes |-> 1], status |-> "idle", pc |-> 0,
         net |-> NewNetwork]]

\* the requests the callers draw from; two of them raise part-way
ConcurrentRequests ==
    { <<"4way", [signal_type |-> "static", arm_length |-> 200, lanes_per_arm |-> 1,
                 speed_limit |-> 50, green_time_ns |-> 30, yellow_time |-> 3,
                 green_time_ew |-> 30]>>,
      <<"4way", [signal_type |-> "static", arm_length |-> 200, lanes_per_arm |-> 0,
                 speed_limit |-> 50, green_time_ns |-> 30, yellow_time |-> 3,
                 green_time_ew |-> 30]>>,
      <<"4way", [signal_type |-> "actuated", arm_length |-> 200, lanes_per_arm |-> 2,
                 speed_limit |-> 30, green_time_ns |-> 15, yellow_time |-> 0,
                 green_time_ew |-> 30]>>,
      <<"3way", [arm_length |-> 200, lanes_per_arm |-> 1, speed_limit |-> 50,
                 has_signal |-> TRUE]>>,
      <<"roundabout", [arm_length |-> 200, lanes_per_arm |-> 1, speed_limit |-> 30,
                       num_arms |-> 3, radius |-> 30, roundabout_lanes |-> 1]>> }

\* the entities generate() constructs and adds, in the order of its statements
TemplatePlan(key, p) ==
    LET parts ==
            CASE key = "4way" ->
                    [nodes |-> FourWayNodes(p), edges |-> FourWayEdges(p),
                     tls |-> << TrafficLight("C", FourWayPhases(p), p.signal_type) >>]
              [] key = "3way" ->
                    [nodes |-> ThreeWayNodes(p), edges |-> ThreeWayEdges(p),
                     tls |-> IF p.has_signal
                             THEN << TrafficLight("C", ThreeWayPhases(p), "static") >>
                             ELSE <<>>]
              [] key = "roundabout" ->
                    [nodes |-> RoundaboutNodes(p), edges |-> RoundaboutEdges(p), tls |-> <<>>]
    IN  [i \in DOMAIN parts.nodes |-> <<"node", parts.nodes[i]>>]
        \o [i \in DOMAIN parts.edges |-> <<"edge", parts.edges[i]>>]
        \o [i \in DOMAIN parts.tls |-> <<"tl", parts.tls[i]>>]

\* whether the constructors of this statement return
StatementValid(s) ==
    CASE s[1] = "node" -> NodeValid(s[2])
      [] s[1] = "edge" -> EdgeValid(s[2])
      [] s[1] = "tl" -> \A k \in DOMAIN s[2].phases : PhaseValid(s[2].phases[k])

AddEntity(net, s) ==
    CASE s[1] = "node" -> add_node(net, s[2])
      [] s[1] = "edge" -> add_edge(net, s[2])
      [] s[1] = "tl" -> add_traffic_light(net, s[2])

\* mutant: the four lists are attributes of the class, shared by every generator
AppendShared(cs, c, s) ==
    [d \in Callers |->
        IF cs[d].status = "running" THEN [cs[d] EXCEPT !.net = AddEntity(@, s)] ELSE cs[d]]

\* network.add_*(entity) of caller c: self.nodes etc. are the lists of its own generator
AppendOwn(cs, c, s) ==
    [cs EXCEPT ![c].net = AddEntity(@, s)]

concurrentRest == <<studioVars, gen, rgen, disk, buildErr, ctor, timing>>

\* a caller enters generate(): network = NetworkGenerator()
CallGenerate ==
    \E c \in Callers, r \in ConcurrentRequests :
        /\ calls[c].status = "idle"
        /\ calls' = [calls EXCEPT ![c] = [key |-> r[1], config |-> r[2],
                                          status |-> "running", pc |-> 1,
                                          net |-> NewNetwork]]
        /\ UNCHANGED concurrentRest

\* the next statement of a running call constructs its entity and adds it
GenerateStep ==
    \E c \in Callers :
        /\ calls[c].status = "running"
        /\ \E plan \in {TemplatePlan(calls[c].key, calls[c].config)} :
              /\ calls[c].pc <= Len(plan)
              /\ StatementValid(plan[calls[c].pc])
              /\ calls' = [AppendOwn(calls, c, plan[calls[c].pc]) EXCEPT ![c].pc = @ + 1]
        /\ UNCHANGED concurrentRest

\* the next statement's constructor raises: the call ends with the ValueError
GenerateRaise ==
    \E c \in Callers :
        /\ calls[c].status = "running"
        /\ \E plan \in {TemplatePlan(calls[c].key, calls[c].config)} :
              /\ calls[c].pc <= Len(plan)
              /\ ~StatementValid(plan[calls[c].pc])
              /\ calls' = [calls EXCEPT ![c].status = "raised"]
        /\ UNCHANGED concurrentRest

\* return network
GenerateReturn ==
    \E c \in Callers :
        /\ calls[c].status = "running"
        /\ calls[c].pc > Len(TemplatePlan(calls[c].key, calls[c].config))
        /\ calls' = [calls EXCEPT ![c].status = "done"]
        /\ UNCHANGED concurrentRest

-----------------------------------------------------------------------------
(* The signal designer's calculators (app.py, show_signal_designer) and    *)
(* the helper calculate_webster_cycle.  A calculation reads its widgets    *)
(* and displays results; an exception is caught and shown as an error.     *)
(* What was displayed before the exception stays displayed.                *)

MinCycle == 30
MaxCycle == 180

Shown(success, err, cycle, greens, delay) ==
    [success |-> success, cycle |-> cycle, greens |-> greens, delay |-> delay,
     error |-> err]

\* flow_ratios = [q / s for q, s in zip(flows, saturations)]
FlowRatios(flows, saturations) == [i \in DOMAIN flows |-> Rat(flows[i], saturations[i])]

\* C_opt = max(30, min(C_opt, 180))
ClampCycle(c) == RMax(RInt(MinCycle), RMin(c, RInt(MaxCycle)))

\* mutant: the share is not normalised by Y
GreenTimeUnnormalised(ratio, Y, effective_green_time) == RMul(ratio, effective_green_time)

\* g_i = (ratio / Y) * effective_green_time
GreenTime(ratio, Y, effective_green_time) == RMul(RDiv(ratio, Y), effective_green_time)

\* the body of the "Calculate Optimal Timing" handler
WebsterTiming(lost_time, flows, saturations) ==
    LET num_approaches == Len(flows)
        flow_ratios == FlowRatios(flows, saturations)
        Y == RSum(flow_ratios)
        L == lost_time * num_approaches
        oneMinusY == RSub(RInt(1), Y)
    IN  IF RIsZero(oneMinusY)
        THEN Shown(FALSE, TRUE, <<>>, <<>>, <<>>)        \* ZeroDivisionError in C_opt
        ELSE
        LET C_opt == ClampCycle(RDiv(Rat(3 * L + 10, 2), oneMinusY))
            effective_green_time == RSub(C_opt, RInt(L))
        IN  IF RIsZero(Y)
            THEN Shown(FALSE, TRUE, <<>>, <<>>, <<>>)    \* ZeroDivisionError in ratio / Y
            ELSE
            LET green_times ==
                    [i \in DOMAIN flow_ratios |-> GreenTime(flow_ratios[i], Y, effective_green_time)]
            IN  IF RIsZero(effective_green_time)
                THEN Shown(TRUE, TRUE, <<C_opt>>, green_times, <<>>)
                ELSE
                LET den == RMul(RInt(2),
                                RSub(RInt(1), RDiv(RMul(Y, C_opt), effective_green_time)))
                IN  IF RIsZero(den)
                    THEN Shown(TRUE, TRUE, <<C_opt>>, green_times, <<>>)
                    ELSE Shown(TRUE, FALSE, <<C_opt>>, green_times,
                               << RDiv(RMul(C_opt, RMul(oneMinusY, oneMinusY)), den) >>)

\* int(x) of a float: truncation toward zero
IntOf(q) == IF q[1] >= 0 THEN q[1] \div q[2] ELSE -((-q[1]) \div q[2])

yellow_time == 3

\* the phase dicts "Save as Traffic Light Config" stores in st.session_state.signal_phases:
\* state_green[i] is "G" for every i, so every green state is "G" followed by reds
SignalPhases(green_times, num_approaches) ==
    Flatten([i \in DOMAIN green_times |->
        << [duration |-> IntOf(green_times[i]),
            state |-> <<"G">> \o Rep("r", num_approaches - 1),
            minDur |-> IntOf(RMul(green_times[i], Rat(1, 2))),
            maxDur |-> IntOf(RMul(green_times[i], Rat(3, 2)))],
           [duration |-> yellow_time,
            state |-> <<"y">> \o Rep("r", num_approaches - 1),
            minDur |-> yellow_time,
            maxDur |-> yellow_time] >>])

\* calculate_webster_cycle(critical_ratios, lost_time)
calculate_webster_cycle(critical_ratios, lost_time) ==
    LET Y == RSum(critical_ratios)
    IN  IF RLe(RInt(1), Y)
        THEN [raised |-> TRUE, value |-> <<>>]
        ELSE [raised |-> FALSE,
              value |-> << RDiv(Rat(3 * lost_time + 10, 2), RSub(RInt(1), Y)) >>]

\* mutant: the offset is not wrapped around the cycle
NextOffsetNoWrap(prev, dist, speed_limit, common_cycle) ==
    RAdd(prev, RDiv(RInt(dist), kmh_to_ms(speed_limit)))

\* offset = (offsets[-1] + dist / speed_ms) % common_cycle
NextOffset(prev, dist, speed_limit, common_cycle) ==
    RMod(RAdd(prev, RDiv(RInt(dist), kmh_to_ms(speed_limit))), RInt(common_cycle))

\* the body of the "Calculate Green Wave Offsets" handler
RECURSIVE GreenWaveOffsets(_, _, _)
GreenWaveOffsets(distances, speed_limit, common_cycle) ==
    IF distances = <<>> THEN << RInt(0) >>
    ELSE LET front == GreenWaveOffsets(SubSeq(distances, 1, Len(distances) - 1),
                                       speed_limit, common_cycle)
         IN  Append(front, NextOffset(front[Len(front)], distances[Len(distances)],
                                      speed_limit, common_cycle))

\* mutant: the green ratio is inverted
ApproachCapacityInverted(num_lanes, saturation_flow_per_lane, green_time, cycle_length) ==
    RMul(RInt(num_lanes * saturation_flow_per_lane), Rat(cycle_length, green_time))

\* capacity = num_lanes * saturation_flow_per_lane * (green_time / cycle_length)
ApproachCapacity(num_lanes, saturation_flow_per_lane, green_time, cycle_length) ==
    RMul(RInt(num_lanes * saturation_flow_per_lane), Rat(green_time, cycle_length))

\* the level-of-service limits shown: total_capacity * 0.6, 0.7, 0.8, 0.9 and total_capacity
LosLimits(total_capacity) ==
    << RMul(total_capacity, Rat(6, 10)), RMul(total_capacity, Rat(7, 10)),
       RMul(total_capacity, Rat(8, 10)), RMul(total_capacity, Rat(9, 10)), total_capacity >>

\* the body of the "Analyze Capacity" handler
CapacityAnalysis(in) ==
    IF in.analysis_type = "Signalized Intersection"
    THEN LET capacity_ns == ApproachCapacity(in.num_lanes_ns, in.saturation_flow_per_lane,
                                             in.green_time_ns, in.cycle_length)
             capacity_ew == ApproachCapacity(in.num_lanes_ew, in.saturation_flow_per_lane,
                                             in.green_time_ew, in.cycle_length)
             total_capacity == RAdd(capacity_ns, capacity_ew)
         IN  [success |-> TRUE, capacity_ns |-> <<capacity_ns>>, capacity_ew |-> <<capacity_ew>>,
              total |-> <<total_capacity>>, los |-> LosLimits(total_capacity)]
    ELSE [success |-> FALSE, capacity_ns |-> <<>>, capacity_ew |-> <<>>, total |-> <<>>, los |-> <<>>]

\* widget values the calculations are tried on
Approaches == {<<0, 1800>>, <<540, 1800>>, <<800, 1800>>, <<900, 1800>>, <<1800, 1800>>, <<900, 3600>>}
LostTimes == {1, 3, 10}
TotalLostTimes == {4, 6, 20}
SeqsOf(S, lo, hi) == UNION {[1..n -> S] : n \in lo..hi}

WebsterInputs ==
    {[flows |-> [i \in DOMAIN a |-> a[i][1]],
      saturations |-> [i \in DOMAIN a |-> a[i][2]], lost_time |-> lt, op |-> "webster"] :
        lt \in LostTimes, a \in SeqsOf(Approaches, 2, MaxApproaches)}

HelperInputs ==
    {[lost_time |-> lt, critical_ratios |-> [i \in DOMAIN a |-> Rat(a[i][1], a[i][2])],
      op |-> "helper"] :
        lt \in TotalLostTimes, a \in SeqsOf(Approaches, 2, MaxApproaches)}

OffsetInputs ==
    {[speed_limit |-> v, common_cycle |-> c, distances |-> d, op |-> "offsets"] :
        c \in {30, 60, 90}, v \in {20, 36, 50}, d \in SeqsOf({50, 300, 1000}, 1, MaxSignals - 1)}

CapacityInputs ==
    [op : {"capacity"}, analysis_type : {"Signalized Intersection", "Roundabout"},
     num_lanes_ns : 1..MaxLanes, num_lanes_ew : 1..MaxLanes, cycle_length : {30, 90},
     green_time_ns : {10, 40}, green_time_ew : {40, 120}, saturation_flow_per_lane : {1000, 1800}]

Idle == [state |-> "idle", in |-> [op |-> "none"], out |-> [success |-> FALSE]]
Pending(in) == [state |-> "ready", in |-> in, out |-> [success |-> FALSE]]
Done(in, out) == [state |-> "done", in |-> in, out |-> out]

CalculateOptimalTiming ==
    /\ timing.state = "ready" /\ timing.in.op = "webster"
    /\ timing' = Done(timing.in,
                      WebsterTiming(timing.in.lost_time, timing.in.flows, timing.in.saturations))
    /\ UNCHANGED <<studioVars, buildVars>>

\* the save button is reached only when the delay estimate was computed and shown
SaveAsTrafficLightConfig ==
    /\ timing.state = "done" /\ timing.in.op = "webster"
    /\ timing.out.success /\ ~timing.out.error
    /\ timing' = [state |-> "saved", in |-> timing.in, out |-> timing.out,
                  signal_phases |-> SignalPhases(timing.out.greens, Len(timing.in.flows))]
    /\ UNCHANGED <<studioVars, buildVars>>

CallWebsterHelper ==
    /\ timing.state = "ready" /\ timing.in.op = "helper"
    /\ timing' = Done(timing.in,
                      calculate_webster_cycle(timing.in.critical_ratios, timing.in.lost_time))
    /\ UNCHANGED <<studioVars, buildVars>>

CalculateOffsets ==
    /\ timing.state = "ready" /\ timing.in.op = "offsets"
    /\ timing' = Done(timing.in,
                      [success |-> TRUE,
                       offsets |-> GreenWaveOffsets(timing.in.distances, timing.in.speed_limit,
                                                    timing.in.common_cycle)])
    /\ UNCHANGED <<studioVars, buildVars>>

AnalyzeCapacity ==
    /\ timing.state = "ready" /\ timing.in.op = "capacity"
    /\ timing' = Done(timing.in, CapacityAnalysis(timing.in))
    /\ UNCHANGED <<studioVars, buildVars>>

-----------------------------------------------------------------------------
(* A caller of the entity model and the two generators, as the module's    *)
(* own example is: entities are constructed and added, files are saved.    *)
(* A constructor that raises leaves the generator as it was.               *)

NodeChoices == {"A", "B", ""}

\* (id, from_node, to_node, num_lanes): "X" is never the id of a node
EdgeChoices ==
    {<<"AB", "A", "B", 1>>, <<"AX", "A", "X", 1>>, <<"AA", "A", "A", 1>>, <<"BA", "B", "A", 0>>}

\* the (duration, state) pairs of a program's phases
PhaseListChoices ==
    {<< <<30, Rep("G", 2)>>, <<3, Rep("y", 2)>> >>,
     << <<30, Rep("G", 2)>>, <<3, Rep("y", 1)>> >>,
     << <<30, Rep("G", 2)>>, <<0, Rep("y", 2)>> >>}

AddNode ==
    /\ Len(gen.nodes) < MaxNodes
    /\ \E id \in NodeChoices :
          \E n \in {Node(id, Lit(0), Lit(0), "priority", "")} :
             IF NodeValid(n)
             THEN gen' = add_node(gen, n) /\ buildErr' = FALSE
             ELSE gen' = gen /\ buildErr' = TRUE
    /\ UNCHANGED <<rgen, disk, ctor, studioVars, timing, calls>>

AddEdge ==
    /\ Len(gen.edges) < MaxEdges
    /\ \E c \in EdgeChoices :
          \E e \in {Edge(c[1], c[2], c[3], c[4], kmh_to_ms(50), 1)} :
             IF EdgeValid(e)
             THEN gen' = add_edge(gen, e) /\ buildErr' = FALSE
             ELSE gen' = gen /\ buildErr' = TRUE
    /\ UNCHANGED <<rgen, disk, ctor, studioVars, timing, calls>>

AddTrafficLight ==
    /\ Len(gen.traffic_lights) < MaxPrograms
    /\ \E c \in PhaseListChoices :
          \E phases \in {[k \in DOMAIN c |-> Phase(c[k][1], c[k][2], 0, 0, "")]} :
             IF \A k \in DOMAIN phases : PhaseValid(phases[k])
             THEN gen' = add_traffic_light(gen, TrafficLight("A", phases, "static"))
                  /\ buildErr' = FALSE
             ELSE gen' = gen /\ buildErr' = TRUE
    /\ UNCHANGED <<rgen, disk, ctor, studioVars, timing, calls>>

\* network.save_all(output_dir, prefix): no check precedes the writes
SaveAll ==
    /\ disk.saves < MaxSaves
    /\ disk' = [disk EXCEPT !.net = save_all(@, gen), !.saves = @ + 1]
    /\ buildErr' = FALSE
    /\ UNCHANGED <<gen, rgen, ctor, studioVars, timing, calls>>

-----------------------------------------------------------------------------
(* RouteGenerator and the entities of the demand file.                     *)

VehicleType(id, vclass, color) ==
    [id |-> id, length |-> Rat(5, 1), vclass |-> vclass, color |-> color,
     min_gap |-> Rat(25, 10), max_speed |-> Rat(5556, 100), accel |-> Rat(26, 10),
     decel |-> Rat(45, 10), sigma |-> Rat(5, 10), tau |-> Rat(1, 1),
     emission_class |-> "HBEFA3/PC_G_EU4", car_follow_model |-> ""]

Flow(id, from_edge, to_edge, vtype, vehs_per_hour) ==
    [id |-> id, from_edge |-> from_edge, to_edge |-> to_edge, vtype |-> vtype,
     vehs_per_hour |-> vehs_per_hour, route_id |-> "", begin |-> 0, end |-> 3600,
     probability |-> 0, period |-> 0, number |-> 0]

VehicleTypeAttrib(vt) ==
    << <<"id", vt.id>>, <<"length", FloatStr(vt.length)>>, <<"minGap", FloatStr(vt.min_gap)>>,
       <<"maxSpeed", FloatStr(vt.max_speed)>>, <<"accel", FloatStr(vt.accel)>>,
       <<"decel", FloatStr(vt.decel)>>, <<"sigma", FloatStr(vt.sigma)>>,
       <<"tau", FloatStr(vt.tau)>>, <<"vClass", vt.vclass>>,
       <<"emissionClass", vt.emission_class>> >>
    \o (IF vt.color # "" THEN << <<"color", vt.color>> >> ELSE <<>>)
    \o (IF vt.car_follow_model # "" THEN << <<"carFollowModel", vt.car_follow_model>> >> ELSE <<>>)

FlowAttrib(fl) ==
    << <<"id", fl.id>>, <<"type", fl.vtype>>, <<"begin", ToString(fl.begin)>>,
       <<"end", ToString(fl.end)>> >>
    \o (IF fl.route_id # ""
        THEN << <<"route", fl.route_id>> >>
        ELSE (IF fl.from_edge # "" THEN << <<"from", fl.from_edge>> >> ELSE <<>>)
             \o (IF fl.to_edge # "" THEN << <<"to", fl.to_edge>> >> ELSE <<>>))
    \o (IF fl.vehs_per_hour > 0 THEN << <<"vehsPerHour", ToString(fl.vehs_per_hour)>> >>
        ELSE IF fl.probability > 0 THEN << <<"probability", ToString(fl.probability)>> >>
        ELSE IF fl.period > 0 THEN << <<"period", ToString(fl.period)>> >>
        ELSE IF fl.number > 0 THEN << <<"number", ToString(fl.number)>> >>
        ELSE <<>>)

Route(id, edges) == [id |-> id, edges |-> edges]

Vehicle(id, route_id, route_edges, vtype) ==
    [id |-> id, vtype |-> vtype, route_id |-> route_id, route_edges |-> route_edges,
     depart |-> "0", depart_lane |-> "best", depart_speed |-> "max"]

\* the keyword arguments vehs_per_hour, probability, period, number of a Flow
FlowWithRates(fl, rates) ==
    [fl EXCEPT !.vehs_per_hour = rates[1], !.probability = rates[2],
               !.period = rates[3], !.number = rates[4]]

\* " ".join(edges)
RECURSIVE Join(_)
Join(edges) ==
    IF edges = <<>> THEN ""
    ELSE IF Len(edges) = 1 THEN edges[1]
    ELSE edges[1] \o " " \o Join(Tail(edges))

RouteAttrib(rt) == << <<"id", rt.id>>, <<"edges", Join(rt.edges)>> >>

VehicleAttrib(v) ==
    << <<"id", v.id>>, <<"type", v.vtype>>, <<"depart", v.depart>>,
       <<"departLane", v.depart_lane>>, <<"departSpeed", v.depart_speed>> >>
    \o (IF v.route_id # "" THEN << <<"route", v.route_id>> >> ELSE <<>>)

\* the <route edges=...> child of a vehicle that names no route id
VehicleChildren(v) ==
    IF v.route_id = "" /\ v.route_edges # <<>>
    THEN << <<"route", << <<"edges", Join(v.route_edges)>> >>, <<>> >> >>
    ELSE <<>>

NewRoutes == [flows |-> <<>>, vehicle_types |-> <<>>, routes |-> <<>>, vehicles |-> <<>>]

add_vehicle_type(r, vt) == [r EXCEPT !.vehicle_types = Append(@, vt)]
add_route(r, rt) == [r EXCEPT !.routes = Append(@, rt)]
add_vehicle(r, v) == [r EXCEPT !.vehicles = Append(@, v)]
add_flow(r, fl) == [r EXCEPT !.flows = Append(@, fl)]

\* RouteGenerator.generate_xml: the children of <routes>, each <<tag, attrib, children>>
generate_routes_xml(r) ==
    [i \in DOMAIN r.vehicle_types |-> <<"vType", VehicleTypeAttrib(r.vehicle_types[i]), <<>> >>]
    \o [i \in DOMAIN r.routes |-> <<"route", RouteAttrib(r.routes[i]), <<>> >>]
    \o [i \in DOMAIN r.vehicles |->
           <<"vehicle", VehicleAttrib(r.vehicles[i]), VehicleChildren(r.vehicles[i])>>]
    \o [i \in DOMAIN r.flows |-> <<"flow", FlowAttrib(r.flows[i]), <<>> >>]

VehicleTypeChoices == {<<"car", "passenger">>, <<"bus", "bus">>}

\* the vtype a flow names: a declared id, an id never declared, the built-in default
FlowTypeChoices == {"car", "truck", "DEFAULT_VEHTYPE"}

\* (vehs_per_hour, probability, period, number): one set, none set, several set
FlowRateChoices == {<<500, 0, 0, 0>>, <<0, 0, 0, 0>>, <<500, 1, 0, 3>>, <<0, 0, 10, 3>>}

\* (id, vtype, rates)
FlowChoices ==
    {<<"flow_1", vt, <<500, 0, 0, 0>> >> : vt \in FlowTypeChoices}
    \cup {<<"flow_2", "car", r>> : r \in FlowRateChoices}

AddVehicleType ==
    /\ Len(rgen.vehicle_types) < MaxVehicleTypes
    /\ \E c \in VehicleTypeChoices :
          rgen' = add_vehicle_type(rgen, VehicleType(c[1], c[2], ""))
    /\ buildErr' = FALSE
    /\ UNCHANGED <<gen, disk, ctor, studioVars, timing, calls>>

AddFlow ==
    /\ Len(rgen.flows) < MaxFlows
    /\ \E c \in FlowChoices :
          rgen' = add_flow(rgen, FlowWithRates(Flow(c[1], "AB", "BA", c[2], 0), c[3]))
    /\ buildErr' = FALSE
    /\ UNCHANGED <<gen, disk, ctor, studioVars, timing, calls>>

\* routes.save(filepath): no check precedes the write
SaveRoutes ==
    /\ disk' = [disk EXCEPT !.rou = File(generate_routes_xml(rgen))]
    /\ buildErr' = FALSE
    /\ UNCHANGED <<gen, rgen, ctor, studioVars, timing, calls>>

-----------------------------------------------------------------------------
(* Constructor calls.  A dataclass with a __post_init__ returns the entity *)
(* or raises ValueError; a dataclass without one returns the entity for    *)
(* any arguments.                                                          *)

NoCall == [state |-> "idle", in |-> [kind |-> "none"], out |-> [raised |-> FALSE, entity |-> <<>>]]
Called(in) == [state |-> "ready", in |-> in, out |-> [raised |-> FALSE, entity |-> <<>>]]
Returned(in, out) == [state |-> "done", in |-> in, out |-> out]

\* the entity when __post_init__ passes, the raise when it does not
Construct(e, valid) ==
    IF valid THEN [raised |-> FALSE, entity |-> <<e>>] ELSE [raised |-> TRUE, entity |-> <<>>]

NodeArgs ==
    [kind : {"Node"}, id : {"A", ""}, node_type : ValidNodeTypes \cup {"roundabout"},
     tl_type : {"", "static"}]

EdgeArgs ==
    [kind : {"Edge"}, id : {"AB", ""}, from_node : {"A", "B", ""}, to_node : {"A", "B", ""},
     num_lanes : {-1, 0, 1, MaxLanes}, speed : {RInt(-5), RInt(0), kmh_to_ms(50)}]

PhaseArgs ==
    [kind : {"Phase"}, duration : {-1, 0, 1, 30}, state : {<<>>, Rep("G", 2)},
     min_dur : {-1, 0, 5, 20}, max_dur : {-1, 0, 10}]

TrafficLightArgs ==
    [kind : {"TrafficLight"}, id : {"A", ""},
     phases : {<<>>, <<Phase(30, Rep("G", 2), 0, 0, "")>>}]

VehicleTypeArgs == [kind : {"VehicleType"}, id : {"car", ""}, vclass : {"passenger", "bus"}]

RouteArgs == [kind : {"Route"}, id : {"r1", ""}, edges : {<<>>, <<"AB", "BA">>}]

FlowArgs == [kind : {"Flow"}, id : {"flow_1", ""}, vtype : {"car", "DEFAULT_VEHTYPE"}]

ConstructNode ==
    /\ ctor.state = "ready" /\ ctor.in.kind = "Node"
    /\ \E n \in {Node(ctor.in.id, Lit(0), Lit(0), ctor.in.node_type, ctor.in.tl_type)} :
          ctor' = Returned(ctor.in, Construct(n, NodeValid(n)))
    /\ UNCHANGED <<gen, rgen, disk, buildErr, studioVars, timing, calls>>

ConstructEdge ==
    /\ ctor.state = "ready" /\ ctor.in.kind = "Edge"
    /\ \E e \in {Edge(ctor.in.id, ctor.in.from_node, ctor.in.to_node, ctor.in.num_lanes,
                      ctor.in.speed, 1)} :
          ctor' = Returned(ctor.in, Construct(e, EdgeValid(e)))
    /\ UNCHANGED <<gen, rgen, disk, buildErr, studioVars, timing, calls>>

ConstructPhase ==
    /\ ctor.state = "ready" /\ ctor.in.kind = "Phase"
    /\ \E ph \in {Phase(ctor.in.duration, ctor.in.state, ctor.in.min_dur, ctor.in.max_dur, "")} :
          ctor' = Returned(ctor.in, Construct(ph, PhaseValid(ph)))
    /\ UNCHANGED <<gen, rgen, disk, buildErr, studioVars, timing, calls>>

ConstructTrafficLight ==
    /\ ctor.state = "ready" /\ ctor.in.kind = "TrafficLight"
    /\ ctor' = Returned(ctor.in, Construct(TrafficLight(ctor.in.id, ctor.in.phases, "static"), TRUE))
    /\ UNCHANGED <<gen, rgen, disk, buildErr, studioVars, timing, calls>>

ConstructVehicleType ==
    /\ ctor.state = "ready" /\ ctor.in.kind = "VehicleType"
    /\ ctor' = Returned(ctor.in, Construct(VehicleType(ctor.in.id, ctor.in.vclass, ""), TRUE))
    /\ UNCHANGED <<gen, rgen, disk, buildErr, studioVars, timing, calls>>

ConstructRoute ==
    /\ ctor.state = "ready" /\ ctor.in.kind = "Route"
    /\ ctor' = Returned(ctor.in, Construct(Route(ctor.in.id, ctor.in.edges), TRUE))
    /\ UNCHANGED <<gen, rgen, disk, buildErr, studioVars, timing, calls>>

ConstructFlow ==
    /\ ctor.state = "ready" /\ ctor.in.kind = "Flow"
    /\ ctor' = Returned(ctor.in, Construct(Flow(ctor.in.id, "AB", "BA", ctor.in.vtype, 500), TRUE))
    /\ UNCHANGED <<gen, rgen, disk, buildErr, studioVars, timing, calls>>

-----------------------------------------------------------------------------
(* Generators handed to the serializer: a NetworkGenerator populated by a  *)
(* caller or returned by a template, or a populated RouteGenerator.        *)

Connection(from_edge, to_edge, from_lane, to_lane) ==
    [from_edge |-> from_edge, to_edge |-> to_edge, from_lane |-> from_lane, to_lane |-> to_lane]

Lists(S, n) == UNION {[1..k -> S] : k \in 0..n}

SavedNodeChoices ==
    {Node("A", Lit(0), Lit(0), "priority", ""),
     Node("B", Shifted(Rat(1005, 10), 0), Lit(-50), "traffic_light", "static")}

SavedEdgeChoices ==
    {Edge("AB", "A", "B", 1, kmh_to_ms(50), 1), Edge("BA", "B", "A", 2, kmh_to_ms(30), 2)}

ConnectionListChoices ==
    {<<>>, <<Connection("AB", "BA", 0, 0), Connection("AB", "BA", 0, 1)>>,
     <<Connection("AB", "BA", 0, 1), Connection("AB", "BA", 0, 0)>>}

ProgramListChoices ==
    {<<>>,
     <<TrafficLight("B", <<Phase(30, Rep("G", 2), 0, 0, ""), Phase(3, Rep("y", 2), 5, 10, "y")>>,
                    "static")>>}

NetworkContents ==
    [nodes : Lists(SavedNodeChoices, MaxNodes), edges : Lists(SavedEdgeChoices, MaxEdges),
     connections : ConnectionListChoices, traffic_lights : ProgramListChoices]

\* the create_network calls of the studio
TemplateRequests ==
    {<<"4way", p>> : p \in FourWayConfigs} \cup {<<"3way", p>> : p \in ThreeWayConfigs}
    \cup {<<"roundabout", p>> : p \in RoundaboutConfigs} \cup {<<"grid", p>> : p \in GridConfigs}
    \cup {<<"corridor", p>> : p \in CorridorConfigs} \cup {<<"highway", p>> : p \in HighwayConfigs}

\* the NetworkGenerator objects those calls return
TemplateGraphs ==
    {[nodes |-> g.nodes, edges |-> g.edges, connections |-> g.connections,
      traffic_lights |-> g.traffic_lights] :
        g \in {h \in {create_network(rq[1], rq[2]) : rq \in TemplateRequests} : h.ok}}

RouteListChoices ==
    {<<>>, <<Route("r1", <<"AB", "BA">>), Route("r2", <<"BA">>)>>,
     <<Route("r2", <<"BA">>), Route("r1", <<"AB", "BA">>)>>}

VehicleListChoices ==
    {<<>>, <<Vehicle("v1", "r1", <<>>, "car"), Vehicle("v2", "", <<"AB", "BA">>, "DEFAULT_VEHTYPE")>>,
     <<Vehicle("v2", "", <<"AB", "BA">>, "DEFAULT_VEHTYPE"), Vehicle("v1", "r1", <<>>, "car")>>}

RouteContents ==
    [vehicle_types : Lists({VehicleType(c[1], c[2], "") : c \in VehicleTypeChoices}, MaxVehicleTypes),
     routes : RouteListChoices, vehicles : VehicleListChoices,
     flows : Lists({FlowWithRates(Flow(c[1], "AB", "BA", c[2], 0), c[3]) : c \in FlowChoices},
                   MaxFlows)]

-----------------------------------------------------------------------------

InitStudio ==
    /\ network = NoNetwork
    /\ request = [key |-> "", config |-> [lanes |-> 1]]
    /\ outcome = "none"
    /\ files = NoFiles

InitBuild ==
    /\ calls = NoCalls
    /\ gen = NewNetwork
    /\ rgen = NewRoutes
    /\ disk = [net |-> NoFiles, saves |-> 0, rou |-> NoFile]
    /\ buildErr = FALSE

Init == InitStudio /\ InitBuild /\ ctor = NoCall /\ timing = Idle

Next ==
    \/ Create4Way
    \/ Create3Way
    \/ CreateRoundabout
    \/ CreateGrid
    \/ CreateCorridor
    \/ CreateHighway
    \/ CreateUnknown

Spec == Init /\ [][Next]_vars

InitTiming ==
    /\ InitStudio
    /\ InitBuild
    /\ ctor = NoCall
    /\ timing \in {Pending(in) : in \in WebsterInputs \cup HelperInputs \cup OffsetInputs \cup CapacityInputs}

NextTiming ==
    \/ CalculateOptimalTiming
    \/ SaveAsTrafficLightConfig
    \/ CallWebsterHelper
    \/ CalculateOffsets
    \/ AnalyzeCapacity

SpecTiming == InitTiming /\ [][NextTiming]_vars

NextBuild ==
    \/ AddNode
    \/ AddEdge
    \/ AddTrafficLight
    \/ SaveAll

SpecBuild == Init /\ [][NextBuild]_vars

NextRoutes ==
    \/ AddVehicleType
    \/ AddFlow
    \/ SaveRoutes

SpecRoutes == Init /\ [][NextRoutes]_vars

InitEntities ==
    /\ InitStudio
    /\ InitBuild
    /\ timing = Idle
    /\ ctor \in {Called(in) : in \in NodeArgs \cup EdgeArgs \cup PhaseArgs \cup TrafficLightArgs
                                       \cup VehicleTypeArgs \cup RouteArgs \cup FlowArgs}

NextEntities ==
    \/ ConstructNode
    \/ ConstructEdge
    \/ ConstructPhase
    \/ ConstructTrafficLight
    \/ ConstructVehicleType
    \/ ConstructRoute
    \/ ConstructFlow

SpecEntities == InitEntities /\ [][NextEntities]_vars

InitSave ==
    /\ InitStudio
    /\ calls = NoCalls
    /\ ctor = NoCall
    /\ timing = Idle
    /\ buildErr = FALSE
    /\ disk = [net |-> NoFiles, saves |-> 0, rou |-> NoFile]
    /\ \/ gen \in NetworkContents \cup TemplateGraphs /\ rgen = NewRoutes
       \/ gen = NewNetwork /\ rgen \in RouteContents

NextSave ==
    \/ SaveAll
    \/ SaveRoutes

SpecSave == InitSave /\ [][NextSave]_vars

NextStudio ==
    \/ GenerateClicked

SpecStudio == Init /\ [][NextStudio]_vars

NextConcurrent ==
    \/ CallGenerate
    \/ GenerateStep
    \/ GenerateRaise
    \/ GenerateReturn

SpecConcurrent == Init /\ [][NextConcurrent]_vars

-----------------------------------------------------------------------------
(* Properties of the generated graphs.                                     *)

NodeIds(g) == {g.nodes[i].id : i \in DOMAIN g.nodes}
EdgeIdSeq(g) == [i \in DOMAIN g.edges |-> g.edges[i].id]
NodeIdSeq(g) == [i \in DOMAIN g.nodes |-> g.nodes[i].id]

\* C1: in the graph a template's generate() returns, every Link's from_node and
\* to_node is the id of a Junction added to that same graph.
C1_NoDanglingEndpoint ==
    outcome = "ok" =>
        \A i \in DOMAIN network.edges :
            /\ network.edges[i].from_node \in NodeIds(network)
            /\ network.edges[i].to_node \in NodeIds(network)

\* a grid with horizontal and vertical links in both directions was returned
C1_Witness ==
    /\ outcome = "ok"
    /\ request.key = "grid"
    /\ request.config.rows = MaxRows
    /\ request.config.cols = MaxCols
    /\ Len(network.edges) = 2 * (MaxRows * (MaxCols - 1) + (MaxRows - 1) * MaxCols)

\* C2: in the graph one generate() call returns, no two Junctions share an id
\* and no two Links share an id.
C2_UniqueIds ==
    outcome = "ok" => NoDuplicates(NodeIdSeq(network)) /\ NoDuplicates(EdgeIdSeq(network))

\* a highway with the most ramps (three junctions per ramp, main and ramp links)
C2_Witness ==
    /\ outcome = "ok"
    /\ request.key = "highway"
    /\ request.config.num_ramps = MaxRamps
    /\ Len(network.nodes) = 2 + 3 * MaxRamps
    /\ Len(network.edges) = (MaxRamps + 1) + 2 * MaxRamps

\* the state-string length 2 x lanesPerApproach x numberOfApproaches of the request
ExpectedStateLen ==
    CASE request.key = "4way" -> 8 * request.config.lanes_per_arm
      [] request.key = "grid" -> 8 * request.config.lanes
      [] request.key = "corridor" ->
            4 * request.config.main_lanes + 4 * request.config.cross_lanes

\* C3: for the signalized four-way, grid and corridor templates every Phase of
\* every generated program has a state string of length 8 x lanes (four-way, grid)
\* or 4 x mainLanes + 4 x crossLanes (corridor), the same for all phases.
C3_StateStringLength ==
    (outcome = "ok" /\ request.key \in {"4way", "grid", "corridor"}) =>
        \A i \in DOMAIN network.traffic_lights :
            \A k \in DOMAIN network.traffic_lights[i].phases :
                Len(network.traffic_lights[i].phases[k].state) = ExpectedStateLen

\* a signalized corridor whose main and cross lane counts differ
C3_Witness ==
    /\ outcome = "ok"
    /\ request.key = "corridor"
    /\ request.config.signalized
    /\ request.config.main_lanes # request.config.cross_lanes
    /\ Len(network.traffic_lights) = MaxIntersections
    /\ Len(network.traffic_lights[1].phases) = 4

-----------------------------------------------------------------------------
(* Properties of the timing calculations.                                  *)

\* Y and L of a finished Webster calculation, from its inputs
InputY ==
    IF timing.in.op = "webster"
    THEN RSum([i \in DOMAIN timing.in.flows |->
                  Rat(timing.in.flows[i], timing.in.saturations[i])])
    ELSE RSum(timing.in.critical_ratios)

InputL ==
    IF timing.in.op = "webster"
    THEN timing.in.lost_time * Len(timing.in.flows)
    ELSE timing.in.lost_time

WebsterDone == timing.state = "done" /\ timing.in.op = "webster"
HelperDone == timing.state = "done" /\ timing.in.op = "helper"

\* (1.5 L + 5) / (1 - Y) cut to the band [30, 180], for Y < 1
ClampedWebster ==
    LET raw == RDiv(Rat(3 * InputL + 10, 2), RSub(RInt(1), InputY))
    IN  IF RLt(raw, RInt(30)) THEN RInt(30)
        ELSE IF RLt(RInt(180), raw) THEN RInt(180) ELSE raw

\* C4: every Webster computation (the helper and the designer's optimization) with
\* Y >= 1 ends in an error and yields neither a cycle length nor green times.
C4_OversaturatedFails ==
    /\ (WebsterDone /\ RLe(RInt(1), InputY)) =>
            (timing.out.error /\ timing.out.cycle = <<>> /\ timing.out.greens = <<>>)
    /\ (HelperDone /\ RLe(RInt(1), InputY)) =>
            (timing.out.raised /\ timing.out.value = <<>>)

\* C5: for Y < 1 the cycle length returned, by calculate_webster_cycle as by the
\* designer, is (1.5 L + 5) / (1 - Y) clamped to [30, 180].
C5_CycleClamped ==
    /\ (WebsterDone /\ RLt(InputY, RInt(1)) /\ timing.out.cycle # <<>>) =>
            timing.out.cycle[1] = ClampedWebster
    /\ (HelperDone /\ RLt(InputY, RInt(1))) =>
            (~timing.out.raised /\ timing.out.value = <<ClampedWebster>>)

\* C6: for 0 < Y < 1 the green time of approach i is (y_i / Y) x (C - L) with C the
\* cycle length displayed, the green times sum to C - L, and y = [0.3, 0.3], L = 6
\* gives C = 35 and greens of 14.5 s.
C6_GreenSplit ==
    (WebsterDone /\ RLt(RInt(0), InputY) /\ RLt(InputY, RInt(1))) =>
        /\ Len(timing.out.cycle) = 1
        /\ Len(timing.out.greens) = Len(timing.in.flows)
        /\ LET eff == RSub(timing.out.cycle[1], RInt(InputL))
           IN  /\ \A i \in DOMAIN timing.out.greens :
                     RMul(timing.out.greens[i], InputY)
                        = RMul(Rat(timing.in.flows[i], timing.in.saturations[i]), eff)
               /\ RSum(timing.out.greens) = eff
        /\ (timing.in.lost_time = 3 /\ timing.in.flows = <<540, 540>>
                /\ timing.in.saturations = <<1800, 1800>>) =>
              (timing.out.cycle = <<RInt(35)>> /\ timing.out.greens = <<Rat(29, 2), Rat(29, 2)>>)

\* the worked example y = [0.3, 0.3], L = 6 was calculated
C6_Witness ==
    /\ WebsterDone
    /\ timing.in.lost_time = 3
    /\ timing.in.flows = <<540, 540>>
    /\ timing.in.saturations = <<1800, 1800>>
    /\ timing.out.success

OffsetsDone == timing.state = "done" /\ timing.in.op = "offsets"

\* a is b reduced modulo c: 0 <= a < c and (b - a) / c is a whole number >= 0
IsReduced(a, b, c) ==
    LET k == RDiv(RSub(b, a), c)
    IN  RLe(RInt(0), a) /\ RLt(a, c) /\ k[2] = 1 /\ k[1] >= 0

\* C7: offset propagation over N signals returns N offsets, offset[0] = 0 and
\* offset[i] = (offset[i-1] + distance[i-1] / speed) mod cycle, so 0 <= offset < cycle;
\* cycle 60 s, 10 m/s (36 km/h), distances [300, 300] gives [0, 30, 0].
C7_OffsetsWrapped ==
    OffsetsDone =>
        LET o == timing.out.offsets
            c == RInt(timing.in.common_cycle)
            travel(i) == Rat(timing.in.distances[i] * 36, timing.in.speed_limit * 10)
        IN  /\ Len(o) = Len(timing.in.distances) + 1
            /\ o[1] = RInt(0)
            /\ \A i \in DOMAIN timing.in.distances :
                  IsReduced(o[i + 1], RAdd(o[i], travel(i)), c)
            /\ (timing.in.common_cycle = 60 /\ timing.in.speed_limit = 36
                    /\ timing.in.distances = <<300, 300>>) =>
                  o = <<RInt(0), RInt(30), RInt(0)>>

\* the worked example was calculated, and its last offset wrapped to 0
C7_Witness ==
    /\ OffsetsDone
    /\ timing.in.common_cycle = 60
    /\ timing.in.speed_limit = 36
    /\ timing.in.distances = <<300, 300>>
    /\ Len(timing.out.offsets) = 3

CapacityDone ==
    /\ timing.state = "done"
    /\ timing.in.op = "capacity"
    /\ timing.in.analysis_type = "Signalized Intersection"

\* C8: approach capacity is lanes x saturation x (green / cycle), total capacity the
\* sum over the approaches (2 lanes, 1800, cycle 90, green 40: 1600 veh/h), and the
\* level-of-service limits are 60, 70, 80, 90 and 100 % of the total, increasing.
C8_CapacityAndLos ==
    CapacityDone =>
        LET in == timing.in
            out == timing.out
        IN  /\ RMul(out.capacity_ns[1], RInt(in.cycle_length))
                  = RInt(in.num_lanes_ns * in.saturation_flow_per_lane * in.green_time_ns)
            /\ RMul(out.capacity_ew[1], RInt(in.cycle_length))
                  = RInt(in.num_lanes_ew * in.saturation_flow_per_lane * in.green_time_ew)
            /\ out.total[1] = RAdd(out.capacity_ns[1], out.capacity_ew[1])
            /\ Len(out.los) = 5
            /\ \A k \in 1..5 : RMul(out.los[k], RInt(10)) = RMul(out.total[1], RInt(5 + k))
            /\ \A k \in 1..4 : RLt(out.los[k], out.los[k + 1])
            /\ (in.num_lanes_ns = 2 /\ in.saturation_flow_per_lane = 1800
                    /\ in.cycle_length = 90 /\ in.green_time_ns = 40) =>
                  out.capacity_ns[1] = RInt(1600)

\* the worked example was analysed
C8_Witness ==
    /\ CapacityDone
    /\ timing.in.num_lanes_ns = 2
    /\ timing.in.saturation_flow_per_lane = 1800
    /\ timing.in.cycle_length = 90
    /\ timing.in.green_time_ns = 40
    /\ timing.out.success

-----------------------------------------------------------------------------
(* Properties of the saved files and of caller-built signal programs.      *)

\* the value an element's attribute dict holds under key
Attr(attrib, key) ==
    LET i == CHOOSE j \in DOMAIN attrib : attrib[j][1] = key
    IN attrib[i][2]

SavedNodeIds == {Attr(disk.net.nod.elems[i], "id") : i \in DOMAIN disk.net.nod.elems}

SavedVehicleTypeIds ==
    {Attr(disk.rou.elems[i][2], "id") :
        i \in {j \in DOMAIN disk.rou.elems : disk.rou.elems[j][1] = "vType"}}

\* C9: serialization fails, and writes no output, when a Link names a from/to
\* Junction id that is not in the graph or a Flow names a vehicle-class id that
\* is not among the vehicle classes being serialized; so a link file that was
\* written names only junctions of the junction file written with it, and a
\* demand file that was written names only vehicle classes it declares (or
\* the simulator's built-in default class).
C9_NoDanglingReferenceSaved ==
    /\ disk.net.edg.present =>
          \A i \in DOMAIN disk.net.edg.elems :
             /\ Attr(disk.net.edg.elems[i], "from") \in SavedNodeIds
             /\ Attr(disk.net.edg.elems[i], "to") \in SavedNodeIds
    /\ disk.rou.present =>
          \A i \in DOMAIN disk.rou.elems :
             disk.rou.elems[i][1] = "flow" =>
                Attr(disk.rou.elems[i][2], "type") \in SavedVehicleTypeIds \cup {"DEFAULT_VEHTYPE"}

\* C10: a phase whose state-string length differs from the first phase's is
\* refused with a phase-length-mismatch error; so in every SignalProgram that
\* exists all phases have the same state-string length.
C10_UniformPhaseWidth ==
    \A i \in DOMAIN gen.traffic_lights :
       \A k \in DOMAIN gen.traffic_lights[i].phases :
          Len(gen.traffic_lights[i].phases[k].state)
             = Len(gen.traffic_lights[i].phases[1].state)

-----------------------------------------------------------------------------
(* Properties of the constructors.                                         *)

Constructed == ctor.state = "done"

\* the arguments of a Link the data model calls invalid
LinkArgsInvalid(in) ==
    \/ in.id = ""
    \/ in.from_node = ""
    \/ in.to_node = ""
    \/ in.from_node = in.to_node
    \/ in.num_lanes < 1
    \/ ~RLt(RInt(0), in.speed)

\* the arguments of a Phase the data model calls invalid
PhaseArgsInvalid(in) ==
    \/ in.duration < 1
    \/ in.state = <<>>
    \/ (in.min_dur > 0 /\ in.max_dur > 0 /\ in.min_dur > in.max_dur)

\* the arguments of any entity the data model calls invalid
ArgsInvalid(in) ==
    CASE in.kind = "Node" -> in.id = "" \/ in.node_type \notin ValidNodeTypes
      [] in.kind = "Edge" -> LinkArgsInvalid(in)
      [] in.kind = "Phase" -> PhaseArgsInvalid(in)
      [] in.kind = "TrafficLight" -> in.id = "" \/ in.phases = <<>>
      [] OTHER -> in.id = ""

\* C11: constructing an entity of any kind with an invalid field fails and yields
\* no entity; this includes an empty identifier on a VehicleClass, Route, Flow or
\* SignalProgram and a SignalProgram with zero phases.
C11_InvalidEntityRejected ==
    (Constructed /\ ArgsInvalid(ctor.in)) => (ctor.out.raised /\ ctor.out.entity = <<>>)

C13_SubtypeOnlyIfSignalized ==
    (Constructed /\ ctor.in.kind = "Node") =>
        \A i \in DOMAIN ctor.out.entity :
           ctor.out.entity[i].tl_type # "" => ctor.out.entity[i].node_type = "traffic_light"

-----------------------------------------------------------------------------
(* Properties of the serializer.                                           *)

Saved == disk.saves >= 1

AttrKeys(attrib) == {attrib[j][1] : j \in DOMAIN attrib}

\* the elements of a file that carry the tag, in file order
ElementsOf(elems, tag) == SelectSeq(elems, LAMBDA e : e[1] = tag)

RateKeys == {"vehsPerHour", "probability", "period", "number"}

\* the rate attribute first-set-wins precedence selects for a flow
SelectedRate(fl) ==
    IF fl.vehs_per_hour > 0 THEN <<"vehsPerHour", ToString(fl.vehs_per_hour)>>
    ELSE IF fl.probability > 0 THEN <<"probability", ToString(fl.probability)>>
    ELSE IF fl.period > 0 THEN <<"period", ToString(fl.period)>>
    ELSE <<"number", ToString(fl.number)>>

\* C14: every Flow serialized to the demand file carries exactly one demand-rate
\* attribute, the one first-set-wins precedence (vehicles per hour, probability,
\* period, count) selects; never two and never none.
C14_ExactlyOneRate ==
    disk.rou.present =>
        LET fe == ElementsOf(disk.rou.elems, "flow")
        IN  /\ Len(fe) = Len(rgen.flows)
            /\ \A k \in DOMAIN fe :
                  /\ Cardinality(AttrKeys(fe[k][2]) \cap RateKeys) = 1
                  /\ SelectedRate(rgen.flows[k])[1] \in AttrKeys(fe[k][2])
                  /\ Attr(fe[k][2], SelectedRate(rgen.flows[k])[1])
                        = SelectedRate(rgen.flows[k])[2]

\* C15: one save_all call always writes the junction file and the link file,
\* the connection file iff the graph has a Connection and the signal-logic file
\* iff the graph has a SignalProgram.
C15_FilesWritten ==
    Saved =>
        /\ disk.net.nod.present
        /\ disk.net.edg.present
        /\ disk.net.con.present <=> gen.connections # <<>>
        /\ disk.net.tll.present <=> gen.traffic_lights # <<>>

\* a graph with no connection and one with connections were saved
C15_Witness ==
    /\ Saved
    /\ gen.connections # <<>>
    /\ gen.traffic_lights = <<>>
    /\ disk.net.con.present

\* the value every record of a file holds under key, in file order
Column(elems, key) == [i \in DOMAIN elems |-> Attr(elems[i], key)]

\* the same for the children of <routes> that carry the tag
RouteColumn(tag) ==
    LET es == ElementsOf(disk.rou.elems, tag)
    IN  [i \in DOMAIN es |-> Attr(es[i][2], "id")]

ParseCoord(s) ==
    CHOOSE c \in UNION {{gen.nodes[i].x, gen.nodes[i].y} : i \in DOMAIN gen.nodes} :
        CoordStr(c) = s

ParseInt(s) ==
    CHOOSE n \in {gen.edges[i].num_lanes : i \in DOMAIN gen.edges} : ToString(n) = s

-----------------------------------------------------------------------------
(* Properties of the factory and of concurrent generation.                 *)

\* the graph generate() of the registered template returns for the config
TemplateResult(key, p) ==
    CASE key = "4way" -> FourWayGenerate(p)
      [] key = "3way" -> ThreeWayGenerate(p)
      [] key = "roundabout" -> RoundaboutGenerate(p)
      [] key = "grid" -> GridGenerate(p)
      [] key = "corridor" -> CorridorGenerate(p)
      [] key = "highway" -> HighwayGenerate(p)

\* C19: create_network with a key outside the six registered ones fails and
\* returns no graph; with a registered key it returns the graph that template's
\* generate() produces.
C19_FactoryDispatch ==
    outcome # "none" =>
        IF request.key \in {"4way", "3way", "roundabout", "grid", "corridor", "highway"}
        THEN network = TemplateResult(request.key, request.config)
        ELSE outcome = "error" /\ ~network.ok

\* an unregistered key was requested
C19_Witness ==
    /\ outcome = "error"
    /\ request.key = "tjunction"

\* the graph a finished call holds, as generate() returns it
Returned_graph(c) ==
    [nodes |-> calls[c].net.nodes, edges |-> calls[c].net.edges,
     connections |-> calls[c].net.connections,
     traffic_lights |-> calls[c].net.traffic_lights, ok |-> TRUE]

\* C20: under any interleaving of concurrent generate() calls, each call's
\* result equals the result it gives when run alone (a graph, or the failure),
\* and calls with equal parameters return equal graphs.
C20_GenerateIsolated ==
    /\ \A c \in Callers :
          /\ calls[c].status = "done" =>
                Returned_graph(c) = TemplateResult(calls[c].key, calls[c].config)
          /\ calls[c].status = "raised" =>
                ~TemplateResult(calls[c].key, calls[c].config).ok
    /\ \A c, d \in Callers :
          /\ calls[c].status = "done"
          /\ calls[d].status = "done"
          /\ calls[c].key = calls[d].key
          /\ calls[c].config = calls[d].config
          => calls[c].net = calls[d].net

\* one call returned a graph while another call failed part-way
C20_Witness ==
    /\ calls["c1"].status = "done"
    /\ calls["c1"].net.traffic_lights # <<>>
    /\ calls["c2"].status = "raised"
    /\ calls["c2"].net.nodes # <<>>

-----------------------------------------------------------------------------
(* Properties of the templates' structure.                                 *)

\* green when some position is green, else yellow when some position is yellow
PhaseKind(ph) ==
    IF "G" \in Range(ph.state) THEN "green"
    ELSE IF "y" \in Range(ph.state) THEN "yellow" ELSE "red"

PhaseKinds(tl) == [k \in DOMAIN tl.phases |-> PhaseKind(tl.phases[k])]
PhaseNames(tl) == [k \in DOMAIN tl.phases |-> tl.phases[k].name]

FourWayProgramOk ==
    (outcome = "ok" /\ request.key = "4way") =>
        /\ Len(network.traffic_lights) = 1
        /\ PhaseNames(network.traffic_lights[1])
              = <<"NS_Green", "NS_Yellow", "EW_Green", "EW_Yellow">>
        /\ PhaseKinds(network.traffic_lights[1]) = <<"green", "yellow", "green", "yellow">>

SignalizedTee == outcome = "ok" /\ request.key = "3way" /\ request.config.has_signal

\* C21 as stated: the program of a signalized T-junction has exactly 2 phases
\* and the four-way program has exactly 4 phases in the order green-N-S, yellow,
\* green-E-W, yellow.
C21_TeeHasTwoPhases ==
    /\ FourWayProgramOk
    /\ SignalizedTee =>
          /\ Len(network.traffic_lights) = 1
          /\ Len(network.traffic_lights[1].phases) = 2

\* C21 amended: the program of a signalized T-junction has exactly 4 phases
\* (green, yellow, green, yellow), as the four-way program has, whose phases are
\* green-N-S, yellow, green-E-W, yellow in that order.
C21_TeeHasFourPhases ==
    /\ FourWayProgramOk
    /\ SignalizedTee =>
          /\ Len(network.traffic_lights) = 1
          /\ PhaseKinds(network.traffic_lights[1]) = <<"green", "yellow", "green", "yellow">>

\* a signalized T-junction was generated, and so was a four-way intersection
C21_Witness ==
    /\ SignalizedTee
    /\ Len(network.traffic_lights) = 1

\* the junctions of the highway's main axis: start, end and the ramp junctions
MainAxisNodes == {"start", "end"} \cup {JuncId(i) : i \in 1..MaxRamps + 1}

IsMainLink(e) == e.from_node \in MainAxisNodes /\ e.to_node \in MainAxisNodes

\* C22: in every highway graph, every ramp link has a strictly lower speed, a
\* strictly lower lane count and a strictly lower priority rank than every
\* main-axis link.
C22_RampsBelowMain ==
    (outcome = "ok" /\ request.key = "highway") =>
        \A r, m \in Range(network.edges) :
            (~IsMainLink(r) /\ IsMainLink(m)) =>
                /\ RLt(r.speed, m.speed)
                /\ r.num_lanes < m.num_lanes
                /\ r.priority < m.priority

\* the lattice cell of a grid junction, read from its coordinates
Cell(n) ==
    <<n.y.r[1] \div request.config.block_length, n.x.r[1] \div request.config.block_length>>

Cells == (0..(request.config.rows - 1)) \X (0..(request.config.cols - 1))

LatticeAdjacent(a, b) ==
    \/ a[1] = b[1] /\ (a[2] = b[2] + 1 \/ b[2] = a[2] + 1)
    \/ a[2] = b[2] /\ (a[1] = b[1] + 1 \/ b[1] = a[1] + 1)

NodeById(id) == CHOOSE n \in Range(network.nodes) : n.id = id

\* C23: a grid of R rows and C columns has exactly R x C junctions, one link
\* per direction per lattice-adjacent pair and no other link, and with the
\* signalized option on a junction is signalized iff it is interior.
C23_GridStructure ==
    (outcome = "ok" /\ request.key = "grid") =>
        LET R == request.config.rows
            C == request.config.cols
        IN  /\ Len(network.nodes) = R * C
            /\ {Cell(n) : n \in Range(network.nodes)} = Cells
            /\ Len(network.edges) = 2 * (R * (C - 1) + (R - 1) * C)
            /\ {<<Cell(NodeById(e.from_node)), Cell(NodeById(e.to_node))>> :
                    e \in Range(network.edges)}
                  = {ab \in Cells \X Cells : LatticeAdjacent(ab[1], ab[2])}
            /\ request.config.signalized =>
                  \A n \in Range(network.nodes) :
                      n.node_type = "traffic_light"
                         <=> /\ 0 < Cell(n)[1] /\ Cell(n)[1] < R - 1
                             /\ 0 < Cell(n)[2] /\ Cell(n)[2] < C - 1

\* a signalized grid with interior and boundary junctions was generated
C23_Witness ==
    /\ outcome = "ok"
    /\ request.key = "grid"
    /\ request.config.signalized
    /\ request.config.rows >= 3
    /\ request.config.cols >= 4
    /\ \E n \in Range(network.nodes) : n.node_type = "traffic_light"

RingNodes == {n \in Range(network.nodes) : n.x.r = RInt(request.config.radius)}
ApproachNodes == Range(network.nodes) \ RingNodes
LinksBetween(a, b) == {e \in Range(network.edges) : e.from_node = a.id /\ e.to_node = b.id}

\* C24: a roundabout of K arms has K ring and K approach junctions, ring links
\* forming one directed cycle through all ring junctions with roundaboutLanes
\* lanes, one entry and one exit link with armLanes lanes between each approach
\* and its own ring junction, 3K links in all, and no signal program.
C24_RoundaboutStructure ==
    (outcome = "ok" /\ request.key = "roundabout") =>
        LET K == request.config.num_arms
            ring == {e \in Range(network.edges) :
                        \E a, b \in RingNodes : e.from_node = a.id /\ e.to_node = b.id}
        IN  /\ Cardinality(RingNodes) = K
            /\ Cardinality(ApproachNodes) = K
            /\ Len(network.nodes) = 2 * K
            /\ Len(network.edges) = 3 * K
            /\ Cardinality(ring) = K
            /\ \A e \in ring : e.num_lanes = request.config.roundabout_lanes
            /\ \A n \in RingNodes :
                  /\ Cardinality({e \in ring : e.from_node = n.id}) = 1
                  /\ Cardinality({e \in ring : e.to_node = n.id}) = 1
            /\ \A S \in SUBSET {n.id : n \in RingNodes} :
                  (S # {} /\ S # {n.id : n \in RingNodes}) =>
                      \E e \in ring : e.from_node \in S /\ e.to_node \notin S
            /\ \A a \in ApproachNodes :
                  \E n \in RingNodes :
                      /\ n.x.deg = a.x.deg
                      /\ Cardinality(LinksBetween(a, n)) = 1
                      /\ Cardinality(LinksBetween(n, a)) = 1
                      /\ \A e \in LinksBetween(a, n) \cup LinksBetween(n, a) :
                            e.num_lanes = request.config.lanes_per_arm
                      /\ \A e \in Range(network.edges) :
                            (e.from_node = a.id \/ e.to_node = a.id) =>
                                e \in LinksBetween(a, n) \cup LinksBetween(n, a)
            /\ network.traffic_lights = <<>>

\* a roundabout of four arms whose ring and arms differ in lane count was generated
C24_Witness ==
    /\ outcome = "ok"
    /\ request.key = "roundabout"
    /\ request.config.num_arms = 4
    /\ request.config.roundabout_lanes # request.config.lanes_per_arm
    /\ Len(network.edges) = 12

\* C27: in every graph a template returns, each signal program's id is the id
\* of exactly one signalized junction, each signalized junction has exactly one
\* program, and no program is attached to an unsignalized junction.
C27_ProgramsMatchSignalizedJunctions ==
    outcome = "ok" =>
        /\ \A i \in DOMAIN network.traffic_lights :
              Cardinality({k \in DOMAIN network.nodes :
                              /\ network.nodes[k].id = network.traffic_lights[i].id
                              /\ network.nodes[k].node_type = "traffic_light"}) = 1
        /\ \A i \in DOMAIN network.traffic_lights :
              \A k \in DOMAIN network.nodes :
                  network.nodes[k].id = network.traffic_lights[i].id
                     => network.nodes[k].node_type = "traffic_light"
        /\ \A k \in DOMAIN network.nodes :
              network.nodes[k].node_type = "traffic_light" =>
                  Cardinality({i \in DOMAIN network.traffic_lights :
                                  network.traffic_lights[i].id = network.nodes[k].id}) = 1

\* a corridor with several signalized junctions was generated
C27_Witness ==
    /\ outcome = "ok"
    /\ request.key = "corridor"
    /\ Len(network.traffic_lights) >= 2
    /\ \E k \in DOMAIN network.nodes : network.nodes[k].node_type = "priority"

GreenPositions(ph) == {j \in DOMAIN ph.state : ph.state[j] = "G"}

\* C28: in every generated program, run cyclically, a green position is yellow
\* in the next phase, a yellow position is red in the next phase, and the green
\* positions of the two green phases are disjoint and cover every position.
C28_GreenYellowRed ==
    (outcome = "ok" /\ request.key \in {"4way", "3way", "grid", "corridor"}) =>
        \A i \in DOMAIN network.traffic_lights :
            LET phases == network.traffic_lights[i].phases
                nxt(k) == phases[(k % Len(phases)) + 1]
                greens == {k \in DOMAIN phases : GreenPositions(phases[k]) # {}}
            IN  /\ \A k \in DOMAIN phases : \A j \in DOMAIN phases[k].state :
                      /\ phases[k].state[j] \in {"G", "y", "r"}
                      /\ phases[k].state[j] = "G" => nxt(k).state[j] = "y"
                      /\ phases[k].state[j] = "y" => nxt(k).state[j] = "r"
                      /\ phases[k].state[j] = "r" => nxt(k).state[j] \in {"r", "G"}
                /\ Cardinality(greens) = 2
                /\ \A k, m \in greens :
                      k # m =>
                          /\ GreenPositions(phases[k]) \cap GreenPositions(phases[m]) = {}
                          /\ GreenPositions(phases[k]) \cup GreenPositions(phases[m])
                                = DOMAIN phases[k].state

\* a signalized T-junction with several lanes per arm was generated
C28_Witness ==
    /\ SignalizedTee
    /\ request.config.lanes_per_arm >= 2
    /\ Len(network.traffic_lights) = 1

\* the positions of approach k (1 = N, 2 = S, 3 = E, 4 = W) in a four-way state string
ApproachBlock(k) ==
    ((k - 1) * 2 * request.config.lanes_per_arm + 1)..(k * 2 * request.config.lanes_per_arm)

\* C29: with the approach order N, S, E, W the four-way generator documents, the
\* NS-green phase is green exactly on the N and S blocks and red on the E and W
\* blocks, and the EW-green phase is green exactly on the E and W blocks.
C29_GreenOnNamedApproaches ==
    (outcome = "ok" /\ request.key = "4way") =>
        \A ph \in Range(network.traffic_lights[1].phases) :
            /\ ph.name = "NS_Green" =>
                  /\ \A j \in ApproachBlock(1) \cup ApproachBlock(2) : ph.state[j] = "G"
                  /\ \A j \in ApproachBlock(3) \cup ApproachBlock(4) : ph.state[j] = "r"
            /\ ph.name = "EW_Green" =>
                  /\ \A j \in ApproachBlock(3) \cup ApproachBlock(4) : ph.state[j] = "G"
                  /\ \A j \in ApproachBlock(1) \cup ApproachBlock(2) : ph.state[j] = "r"

-----------------------------------------------------------------------------
(* Properties of the delay estimate and of the saved timing.               *)

\* C25: for every designer input with Y < 1, once the cycle length has been
\* clamped to [30, 180] the delay estimate never divides by zero: C - L is not 0
\* and 1 - Y * C / (C - L) is not 0, so the delay is computed.
C25_DelayNeverDividesByZero ==
    (WebsterDone /\ RLt(InputY, RInt(1)) /\ timing.out.cycle # <<>>) =>
        /\ ~RIsZero(RSub(timing.out.cycle[1], RInt(InputL)))
        /\ RMul(InputY, timing.out.cycle[1]) # RSub(timing.out.cycle[1], RInt(InputL))
        /\ ~timing.out.error
        /\ Len(timing.out.delay) = 1

TimingSaved == timing.state = "saved"

\* the Phase the phase editor constructs from a saved phase dict
SavedPhase(k) ==
    Phase(timing.signal_phases[k].duration, timing.signal_phases[k].state,
          timing.signal_phases[k].minDur, timing.signal_phases[k].maxDur, "")

\* C26: every phase the Webster optimizer saves as signal configuration is a
\* valid Phase (positive integer duration, min bound not above max bound) and
\* all saved phases have the same state-string length.
C26_SavedPhasesValid ==
    TimingSaved =>
        /\ \A k \in DOMAIN timing.signal_phases :
              /\ PhaseValid(SavedPhase(k))
              /\ timing.signal_phases[k].duration > 0
              /\ timing.signal_phases[k].minDur <= timing.signal_phases[k].maxDur
        /\ \A k, m \in DOMAIN timing.signal_phases :
              Len(timing.signal_phases[k].state) = Len(timing.signal_phases[m].state)

-----------------------------------------------------------------------------
(* Properties of the studio's output directory.                            *)

\* C30: after any sequence of save_all calls into the same directory under the
\* same name, the files present describe only the graph saved last: a
\* signal-logic file is present only if that graph has a SignalProgram and a
\* connection file only if it has a Connection.
C30_NoStaleFiles ==
    network.ok =>
        /\ files.nod.present /\ files.nod.elems = generate_nodes_xml(network)
        /\ files.edg.present /\ files.edg.elems = generate_edges_xml(network)
        /\ files.tll.present =>
              (network.traffic_lights # <<>> /\ files.tll.elems = generate_tll_xml(network))
        /\ files.con.present =>
              (network.connections # <<>> /\ files.con.elems = generate_connections_xml(network))

====
